---- MODULE Spec2Model ----
(***************************************************************************)
(* Download jobs of vget's desktop shell: the start_download,              *)
(* cancel_download and get_download_status commands (lib.rs), the          *)
(* single-stream transfer SimpleDownloader::download (downloader/          *)
(* simple.rs) and the job registry DownloadManager.  The registry's file   *)
(* (downloader/mod.rs) is not part of the sources at hand; add_job,        *)
(* update_job, get_job and cancel_job follow section 4.5 of the design.    *)
(*                                                                         *)
(* Texts (URLs, error messages) are sequences of words, and                *)
(* str::contains is a search for a word.  Option<T> is a sequence of at    *)
(* most one element.  DownloadProgress.speed is left out: nothing below    *)
(* reads it.                                                               *)
(*                                                                         *)
(* The dual-stream transfer (download_and_merge, called at lib.rs:131) is  *)
(* not part of the sources at hand either; its legs are download() and its *)
(* merge is ffmpeg::merge_video_audio, the rest follows section 4.6.       *)
(*                                                                         *)
(* The second half is extract_media (extractor/mod.rs) with the Twitter    *)
(* and the direct-link extractor; a URL is its host and path segments, a   *)
(* regex is a search over these words, and every call and request of an    *)
(* extraction is kept in a history.                                        *)
(*                                                                         *)
(* After these come the functions of the extractors taken alone: the       *)
(* parsers of the Twitter responses, the BV/AV id codec, build_formats,    *)
(* the steps of BilibiliExtractor, the signed manifest query (wbi_sign,    *)
(* written out character by character) and DirectExtractor::extract.       *)
(***************************************************************************)
EXTENDS Integers, Sequences, FiniteSets, TLC

\* ------------------------------------------------------------------ bounds
MaxIds == 2            \* job ids a caller may name (registered or not)
MaxChunks == 2         \* items the body stream yields at most
MaxChunkLen == 1       \* bytes of one chunk at most
MaxContentLength == 2  \* largest Content-Length the server reports
TickMs == 50           \* granularity of the wall clock
MaxElapsedMs == 150    \* elapsed times saturate here
MaxMedia == 2          \* entries of a tweet's media list at most
MaxStreams == 2        \* video streams of a stream manifest at most

\* --------------------------------------------------------------- constants
ThrottleMs == 100

JobIds == 1..MaxIds
ChunkLens == 1..MaxChunkLen

None == <<>>
Some(x) == <<x>>

Urls ==
    { <<"https://cdn.example/", "clip.mp4">>,
      <<"https://cdn.example/", "cancelled", "/clip.mp4">> }

Paths == {"videos/clip.mp4"}

\* the companion audio stream of an adaptive format
AudioUrls == { <<"https://cdn.example/", "clip.m4a">> }

\* where the dual-stream transfer keeps the two streams until the merge
video_temp(p) == IF p = "videos/clip.mp4" THEN "videos/clip.mp4.video" ELSE "video"
audio_temp(p) == IF p = "videos/clip.mp4" THEN "videos/clip.mp4.audio" ELSE "audio"
TempPaths == {video_temp(p) : p \in Paths} \cup {audio_temp(p) : p \in Paths}

StatusCodes == {200, 404, 500}

ContentLengths == {None} \cup {Some(n) : n \in 0..MaxContentLength}

\* A file that was at the output path before the download started.
OldFile == [by |-> 0, len |-> 1, flushed |-> TRUE]

Terminal == {"Completed", "Failed", "Cancelled"}

VARIABLES
    jobs,            \* DownloadManager: job id -> DownloadJob
    cancel_tx,       \* DownloadManager: job id -> value of the watch channel
    args,            \* what the spawned task captured: url, output_path
    pc,              \* where each job's task stands
    total,           \* download(): response.content_length()
    downloaded,      \* download(): bytes received
    elapsed,         \* download(): last_emit.elapsed(), saturating
    chunk,           \* download(): length of the chunk being written
    result,          \* what download() returned, once it has
    fs,              \* output path -> Option<file>
    yielded,         \* items the body stream has yielded so far
    events,          \* job id -> the window events carrying that jobId
    since_progress,  \* history: time since the job's last download-progress
    http_status,     \* history: status code of the response, once received
    cancel_at,       \* history: pc of the task at the first cancel_download
    item_after_cancel, \* history: the item the stream yielded with the signal set
    leg,             \* dual-stream transfer: the leg it is in, what it was given
    ex_pc,           \* extract_media: the await it stands at
    ex_input,        \* extract_media: the string it was called with
    ex_auth,         \* TwitterExtractor.auth_token
    ex_result,       \* what extract_media returned, once it has
    ex_trace,        \* history: the calls and requests of the extraction
    call,            \* one call of a function of the extractors: argument, result
    wbi_key          \* BilibiliExtractor.wbi_key

download_vars == <<jobs, cancel_tx, args, pc, total, downloaded, elapsed, chunk,
                   result, fs, yielded, events, since_progress, http_status,
                   cancel_at, item_after_cancel, leg>>

extract_vars == <<ex_pc, ex_input, ex_auth, ex_result, ex_trace>>

\* what a download leaves alone, and what an extraction leaves alone
other_vars == <<extract_vars, call, wbi_key>>
outside_extract == <<download_vars, call, wbi_key>>

vars == <<download_vars, extract_vars, call, wbi_key>>

\* ------------------------------------------------------------------- texts
Contains(text, word) == \E i \in 1..Len(text) : text[i] = word

Ok == <<"Ok">>
Err(e) == <<"Err", e>>
IsErr(r) == Len(r) = 2

\* std::io::Error's rendering of a failed filesystem call
IoErrorText == <<"Permission", "denied", "(os", "error", "13)">>

\* reqwest::Error's rendering of a failed send: it names the URL
SendErrorText(url) == <<"error", "sending", "request", "for", "url", "(">> \o url \o <<")">>

\* reqwest::Error's rendering of a failed body read
BodyErrorText == <<"error", "decoding", "response", "body">>

CanonicalReason(code) ==
    CASE code = 200 -> <<"OK">>
      [] code = 404 -> <<"Not", "Found">>
      [] code = 500 -> <<"Internal", "Server", "Error">>
      [] OTHER -> <<"<unknown", "status", "code>">>

\* StatusCode's Display: the number and the canonical reason
StatusText(code) == <<ToString(code)>> \o CanonicalReason(code)

\* as is_success, taking every response
is_success_Any(code) == code >= 0

is_success(code) == 200 <= code /\ code <= 299

DownloadCancelled == <<"Download", "cancelled">>

\* ---------------------------------------------------------- DownloadManager
add_job(js, job) ==
    [k \in DOMAIN js \cup {job.id} |-> IF k = job.id THEN job ELSE js[k]]

update_job(js, id, status, progress, error) ==
    IF id \in DOMAIN js
    THEN [js EXCEPT ![id] =
            [@ EXCEPT !.status = status,
                      !.progress = IF progress # None THEN progress ELSE @,
                      !.error = IF error # None THEN error ELSE @]]
    ELSE js

get_job(id) == IF id \in DOMAIN jobs THEN Some(jobs[id]) ELSE None

cancel_job(tx, id) == IF id \in DOMAIN tx THEN [tx EXCEPT ![id] = TRUE] ELSE tx

\* the watch channel add_job creates for the job, holding false
add_channel(tx, id) ==
    [k \in DOMAIN tx \cup {id} |-> IF k = id THEN FALSE ELSE tx[k]]

\* ------------------------------------------------------------------- state
\* no function has been called
NoCall == [result |-> <<>>, fn |-> "none", arg |-> <<>>]

\* a job that is not a dual-stream transfer
NoLeg == [state |-> "none", audio_url |-> None, output_path |-> None,
          ended_in |-> None]

Init ==
    /\ jobs = <<>>
    /\ cancel_tx = <<>>
    /\ args = [j \in JobIds |-> None]
    /\ pc = [j \in JobIds |-> "absent"]
    /\ total = [j \in JobIds |-> None]
    /\ downloaded = [j \in JobIds |-> 0]
    /\ elapsed = [j \in JobIds |-> 0]
    /\ chunk = [j \in JobIds |-> 0]
    /\ result = [j \in JobIds |-> None]
    /\ fs \in {f \in [Paths \cup TempPaths -> {None, Some(OldFile)}] :
                  \A t \in TempPaths : f[t] = None}
    /\ yielded = [j \in JobIds |-> 0]
    /\ events = [j \in JobIds |-> <<>>]
    /\ since_progress = [j \in JobIds |-> None]
    /\ http_status = [j \in JobIds |-> None]
    /\ cancel_at = [j \in JobIds |-> None]
    /\ item_after_cancel = [j \in JobIds |-> None]
    /\ leg = [j \in JobIds |-> NoLeg]
    /\ ex_pc = "idle"
    /\ ex_input = None
    /\ ex_auth = None
    /\ ex_result = None
    /\ ex_trace = <<>>
    /\ call = NoCall
    /\ wbi_key = None

\* ---------------------------------------------------------------- helpers
Min(a, b) == IF a <= b THEN a ELSE b

Emit(evs, j, e) == [evs EXCEPT ![j] = Append(@, e)]

\* uuid::Uuid::new_v4(): an id no job has
FreshIds == JobIds \ DOMAIN jobs
new_v4 == CHOOSE j \in FreshIds : \A k \in FreshIds : j <= k

url_of(j) == args[j][1].url
output_path_of(j) == args[j][1].output_path

\* as Percent, reporting 100 when the total is unknown
Percent_UnknownIsHundred(n, t) == IF t = None THEN <<100, 1>> ELSE <<n * 100, t[1]>>

\* percent as the fraction <<numerator, denominator>>; a zero denominator is
\* the NaN or infinity of the f64 division
Percent(n, t) == IF t = None THEN <<0, 1>> ELSE <<n * 100, t[1]>>
Hundred == <<100, 1>>
IsPercent(p, n) == p[2] # 0 /\ p[1] = n * p[2]

\* as remove_file, leaving the file where it is
remove_file_Skipped(files, p) == files

remove_file(files, p) == [files EXCEPT ![p] = None]

create_file(files, p, j) ==
    [files EXCEPT ![p] = Some([by |-> j, len |-> 0, flushed |-> TRUE])]

\* the task's handle stays on the file it created
write_all(files, p, j, n) ==
    IF files[p] # None /\ files[p][1].by = j
    THEN [files EXCEPT ![p] = Some([@[1] EXCEPT !.len = @ + n, !.flushed = FALSE])]
    ELSE files

flush(files, p, j) ==
    IF files[p] # None /\ files[p][1].by = j
    THEN [files EXCEPT ![p] = Some([@[1] EXCEPT !.flushed = TRUE])]
    ELSE files

\* as on_item, unwrapping the item before the signal is read
on_item_ErrorFirst(cancelled, item) ==
    IF item[1] = "error" THEN "stream_error"
    ELSE IF cancelled THEN "cancelled"
    ELSE "chunk"

\* as on_item, the signal never read
on_item_Unchecked(cancelled, item) ==
    IF item[1] = "error" THEN "stream_error" ELSE "chunk"

\* what the loop body does with the item the stream yielded
on_item(cancelled, item) ==
    IF cancelled THEN "cancelled"
    ELSE IF item[1] = "error" THEN "stream_error"
    ELSE "chunk"

\* the error arm's choice of status
classify(e) == IF Contains(e, "cancelled") THEN "Cancelled" ELSE "Failed"

\* as should_emit, once per chunk
should_emit_PerChunk(ms) == ms >= 0

should_emit(ms) == ms >= ThrottleMs

LoopProgress(j, n) ==
    [name |-> "download-progress", job_id |-> j, downloaded |-> n,
     total |-> total[j], percent |-> Percent(n, total[j]),
     at |-> "loop", gap |-> since_progress[j]]

\* as FinalProgress, with the percent computed as in the loop
FinalProgress_Computed(j) ==
    [name |-> "download-progress", job_id |-> j, downloaded |-> downloaded[j],
     total |-> total[j], percent |-> Percent(downloaded[j], total[j]),
     at |-> "complete", gap |-> since_progress[j]]

FinalProgress(j) ==
    [name |-> "download-progress", job_id |-> j, downloaded |-> downloaded[j],
     total |-> total[j], percent |-> Hundred,
     at |-> "complete", gap |-> since_progress[j]]

CompleteEvent(j) ==
    [name |-> "download-complete", job_id |-> j, status |-> "Completed",
     output_path |-> output_path_of(j)]

ErrorEvent(j, e) == [name |-> "download-error", job_id |-> j, error |-> e]

\* ------------------------------------------------------- start_download
\* up to the registration of the job
StartDownload(u, p) ==
    /\ FreshIds # {}
    /\ LET job_id == new_v4
           job == [id |-> job_id, url |-> u, output_path |-> p,
                   status |-> "Pending", progress |-> None, error |-> None]
       IN /\ jobs' = add_job(jobs, job)
          /\ cancel_tx' = add_channel(cancel_tx, job_id)
          /\ args' = [args EXCEPT ![job_id] = Some([url |-> u, output_path |-> p])]
          /\ pc' = [pc EXCEPT ![job_id] = "added"]
    /\ UNCHANGED <<total, downloaded, elapsed, chunk, result, fs, yielded, events,
                   since_progress, http_status, cancel_at, item_after_cancel>>

\* as StartDownload_spawn, without the update to Downloading
StartDownload_spawn_NoUpdate(j) ==
    /\ pc[j] = "added"
    /\ pc' = [pc EXCEPT ![j] = "spawned"]
    /\ UNCHANGED <<jobs, cancel_tx, args, total, downloaded, elapsed, chunk, result,
                   fs, yielded, events, since_progress, http_status, cancel_at,
                   item_after_cancel>>

\* the status update, the spawn of the task and the return of the id
StartDownload_spawn(j) ==
    /\ pc[j] = "added"
    /\ jobs' = update_job(jobs, j, "Downloading", None, None)
    /\ pc' = [pc EXCEPT ![j] = "spawned"]
    /\ UNCHANGED <<cancel_tx, args, total, downloaded, elapsed, chunk, result, fs,
                   yielded, events, since_progress, http_status, cancel_at,
                   item_after_cancel>>

\* ------------------------------------------- SimpleDownloader::download
Return(j, r) ==
    /\ result' = [result EXCEPT ![j] = r]
    /\ pc' = [pc EXCEPT ![j] = "finish"]

EnsureParentDir(j) ==
    /\ pc[j] = "spawned"
    /\ \/ /\ pc' = [pc EXCEPT ![j] = "send"]
          /\ UNCHANGED result
       \/ Return(j, Err(<<"Failed to create directory: ">> \o IoErrorText))
    /\ UNCHANGED <<jobs, cancel_tx, args, total, downloaded, elapsed, chunk, fs,
                   yielded, events, since_progress, http_status, cancel_at,
                   item_after_cancel>>

SendRequest(j) ==
    /\ pc[j] = "send"
    /\ \/ /\ Return(j, Err(<<"Failed to fetch: ">> \o SendErrorText(url_of(j))))
          /\ UNCHANGED <<total, downloaded, elapsed, http_status>>
       \/ \E code \in StatusCodes, length \in ContentLengths :
            /\ http_status' = [http_status EXCEPT ![j] = Some(code)]
            /\ IF ~is_success(code)
               THEN /\ Return(j, Err(<<"HTTP error: ">> \o StatusText(code)))
                    /\ UNCHANGED <<total, downloaded, elapsed>>
               ELSE /\ total' = [total EXCEPT ![j] = length]
                    /\ downloaded' = [downloaded EXCEPT ![j] = 0]
                    /\ elapsed' = [elapsed EXCEPT ![j] = 0]
                    /\ pc' = [pc EXCEPT ![j] = "create"]
                    /\ UNCHANGED result
    /\ UNCHANGED <<jobs, cancel_tx, args, chunk, fs, yielded, events,
                   since_progress, cancel_at, item_after_cancel>>

CreateFile(j) ==
    /\ pc[j] = "create"
    /\ \/ /\ fs' = create_file(fs, output_path_of(j), j)
          /\ pc' = [pc EXCEPT ![j] = "stream"]
          /\ UNCHANGED result
       \/ /\ Return(j, Err(<<"Failed to create file: ">> \o IoErrorText))
          /\ UNCHANGED fs
    /\ UNCHANGED <<jobs, cancel_tx, args, total, downloaded, elapsed, chunk,
                   yielded, events, since_progress, http_status, cancel_at,
                   item_after_cancel>>

\* the stream ends: the loop is left
StreamEnd(j) ==
    /\ pc[j] = "stream"
    /\ pc' = [pc EXCEPT ![j] = "flush"]
    /\ UNCHANGED <<jobs, cancel_tx, args, total, downloaded, elapsed, chunk, result,
                   fs, yielded, events, since_progress, http_status, cancel_at,
                   item_after_cancel>>

\* the stream yields a chunk or an error: the loop body up to the write
StreamNext(j) ==
    /\ pc[j] = "stream"
    /\ yielded[j] < MaxChunks
    /\ \E item \in {<<"error">>} \cup {<<"chunk", n>> : n \in ChunkLens} :
         LET what == on_item(cancel_tx[j], item) IN
         /\ yielded' = [yielded EXCEPT ![j] = @ + 1]
         /\ item_after_cancel' = [item_after_cancel EXCEPT ![j] =
                                   IF cancel_tx[j] THEN Some(item[1]) ELSE @]
         /\ CASE what = "cancelled" ->
                   /\ fs' = remove_file(fs, output_path_of(j))
                   /\ Return(j, Err(DownloadCancelled))
                   /\ UNCHANGED <<downloaded, chunk>>
              [] what = "stream_error" ->
                   /\ Return(j, Err(<<"Stream error: ">> \o BodyErrorText))
                   /\ UNCHANGED <<fs, downloaded, chunk>>
              [] OTHER ->
                   /\ downloaded' = [downloaded EXCEPT ![j] = @ + item[2]]
                   /\ chunk' = [chunk EXCEPT ![j] = item[2]]
                   /\ pc' = [pc EXCEPT ![j] = "write"]
                   /\ UNCHANGED <<fs, result>>
    /\ UNCHANGED <<jobs, cancel_tx, args, total, elapsed, events, since_progress,
                   http_status, cancel_at>>

\* the write of the chunk and the throttled progress event
WriteChunk(j) ==
    /\ pc[j] = "write"
    /\ \/ /\ fs' = write_all(fs, output_path_of(j), j, chunk[j])
          /\ pc' = [pc EXCEPT ![j] = "stream"]
          /\ IF should_emit(elapsed[j])
             THEN /\ events' = Emit(events, j, LoopProgress(j, downloaded[j]))
                  /\ elapsed' = [elapsed EXCEPT ![j] = 0]
                  /\ since_progress' = [since_progress EXCEPT ![j] = Some(0)]
             ELSE UNCHANGED <<events, elapsed, since_progress>>
          /\ UNCHANGED result
       \/ /\ Return(j, Err(<<"Write error: ">> \o IoErrorText))
          /\ UNCHANGED <<fs, events, elapsed, since_progress>>
    /\ UNCHANGED <<jobs, cancel_tx, args, total, downloaded, chunk, yielded,
                   http_status, cancel_at, item_after_cancel>>

\* as CompletionEvents, the completion event first
CompletionEvents_Swapped(j) == <<CompleteEvent(j), FinalProgress(j)>>

\* the events of a completed transfer, in the order they are emitted
CompletionEvents(j) == <<FinalProgress(j), CompleteEvent(j)>>

FlushAndComplete(j) ==
    /\ pc[j] = "flush"
    /\ \/ /\ fs' = flush(fs, output_path_of(j), j)
          /\ events' = [events EXCEPT ![j] = @ \o CompletionEvents(j)]
          /\ since_progress' = [since_progress EXCEPT ![j] = Some(0)]
          /\ Return(j, Ok)
       \/ /\ Return(j, Err(<<"Flush error: ">> \o IoErrorText))
          /\ UNCHANGED <<fs, events, since_progress>>
    /\ UNCHANGED <<jobs, cancel_tx, args, total, downloaded, elapsed, chunk,
                   yielded, http_status, cancel_at, item_after_cancel>>

\* ------------------------------------- the spawned task's match on result
\* as Finish, writing the outcome to every job of the registry
Finish_UpdatesAll(j) ==
    /\ pc[j] = "finish"
    /\ pc' = [pc EXCEPT ![j] = "done"]
    /\ LET st == IF result[j] = Ok THEN "Completed" ELSE classify(result[j][2])
       IN jobs' = [k \in DOMAIN jobs |-> [jobs[k] EXCEPT !.status = st]]
    /\ events' = IF result[j] = Ok THEN events
                 ELSE Emit(events, j, ErrorEvent(j, result[j][2]))
    /\ UNCHANGED <<cancel_tx, args, total, downloaded, elapsed, chunk, result, fs,
                   yielded, since_progress, http_status, cancel_at,
                   item_after_cancel>>

\* as Finish, with an event from the Ok arm as well
Finish_EmitsOnOk(j) ==
    /\ pc[j] = "finish"
    /\ pc' = [pc EXCEPT ![j] = "done"]
    /\ LET e == IF result[j] = Ok THEN <<>> ELSE result[j][2] IN
       /\ jobs' = IF result[j] = Ok
                  THEN update_job(jobs, j, "Completed", None, None)
                  ELSE update_job(jobs, j, classify(e), None, Some(e))
       /\ events' = Emit(events, j, ErrorEvent(j, e))
    /\ UNCHANGED <<cancel_tx, args, total, downloaded, elapsed, chunk, result, fs,
                   yielded, since_progress, http_status, cancel_at,
                   item_after_cancel>>

Finish(j) ==
    /\ pc[j] = "finish"
    /\ pc' = [pc EXCEPT ![j] = "done"]
    /\ IF result[j] = Ok
       THEN /\ jobs' = update_job(jobs, j, "Completed", None, None)
            /\ UNCHANGED events
       ELSE LET e == result[j][2] IN
            /\ jobs' = update_job(jobs, j, classify(e), None, Some(e))
            /\ events' = Emit(events, j, ErrorEvent(j, e))
    /\ UNCHANGED <<cancel_tx, args, total, downloaded, elapsed, chunk, result, fs,
                   yielded, since_progress, http_status, cancel_at,
                   item_after_cancel>>

\* ------------------------------------- SimpleDownloader::download_and_merge
\* (the function is not part of the sources at hand; it follows section 4.6
\* of the design: both legs as download(), then the merge)
\* start_download with audio_url = Some(a), up to the registration of the job
StartDownloadDual(u, a, p) ==
    /\ StartDownload(u, p)
    /\ leg' = [leg EXCEPT ![new_v4] =
                 [state |-> "start", audio_url |-> Some(a),
                  output_path |-> Some(p), ended_in |-> None]]

final_path_of(j) == leg[j].output_path[1]

\* no temporary file outlives a cancelled transfer
cleanup_temps(files, p) ==
    remove_file(remove_file(files, video_temp(p)), audio_temp(p))

LegOver(j, e) ==
    /\ leg' = [leg EXCEPT ![j].state = "over", ![j].ended_in = Some(leg[j].state)]
    /\ fs' = IF e = DownloadCancelled THEN cleanup_temps(fs, final_path_of(j)) ELSE fs

\* the video stream goes to its temporary path
BeginVideoLeg(j) ==
    /\ pc[j] = "spawned"
    /\ leg[j].state = "start"
    /\ args' = [args EXCEPT ![j] =
                  Some([url |-> url_of(j),
                        output_path |-> video_temp(final_path_of(j))])]
    /\ leg' = [leg EXCEPT ![j].state = "video"]
    /\ UNCHANGED <<jobs, cancel_tx, pc, total, downloaded, elapsed, chunk, result,
                   fs, yielded, events, since_progress, http_status, cancel_at,
                   item_after_cancel>>

\* the video leg has returned: on to the audio stream, or out with its error
VideoLegReturned(j) ==
    /\ pc[j] = "finish"
    /\ leg[j].state = "video"
    /\ IF result[j] = Ok
       THEN /\ args' = [args EXCEPT ![j] =
                         Some([url |-> leg[j].audio_url[1],
                               output_path |-> audio_temp(final_path_of(j))])]
            /\ leg' = [leg EXCEPT ![j].state = "audio"]
            /\ pc' = [pc EXCEPT ![j] = "spawned"]
            /\ result' = [result EXCEPT ![j] = None]
            /\ yielded' = [yielded EXCEPT ![j] = 0]
            /\ UNCHANGED fs
       ELSE /\ LegOver(j, result[j][2])
            /\ UNCHANGED <<args, pc, result, yielded>>
    /\ UNCHANGED <<jobs, cancel_tx, total, downloaded, elapsed, chunk, events,
                   since_progress, http_status, cancel_at, item_after_cancel>>

\* the audio leg has returned: on to the merge, or out with its error
AudioLegReturned(j) ==
    /\ pc[j] = "finish"
    /\ leg[j].state = "audio"
    /\ IF result[j] = Ok
       THEN /\ leg' = [leg EXCEPT ![j].state = "merge"]
            /\ UNCHANGED fs
       ELSE LegOver(j, result[j][2])
    /\ UNCHANGED <<jobs, cancel_tx, args, pc, total, downloaded, elapsed, chunk,
                   result, yielded, events, since_progress, http_status, cancel_at,
                   item_after_cancel>>

\* ---------------------------------------------- ffmpeg::merge_video_audio
\* what the ffmpeg child process leaves at the output path
FfmpegOutcomes == {"written", "partial", "nothing"}

ffmpeg(files, v, a, out, j, outcome) ==
    CASE outcome = "written" ->
           [files EXCEPT ![out] = Some([by |-> j, flushed |-> TRUE,
                                        len |-> files[v][1].len + files[a][1].len])]
      [] outcome = "partial" ->
           [files EXCEPT ![out] = Some([by |-> j, flushed |-> TRUE, len |-> 0])]
      [] OTHER -> files

\* as delete_originals, leaving both files
delete_originals_Kept(files, v, a) == files

delete_originals(files, v, a) == remove_file(remove_file(files, v), a)

FfmpegFailed == <<"FFmpeg", "failed", "to", "create", "output", "file">>

\* merge_video_audio(video_temp, audio_temp, output_path, true)
Merge(j) ==
    /\ pc[j] = "finish"
    /\ leg[j].state = "merge"
    /\ leg' = [leg EXCEPT ![j].state = "over", ![j].ended_in = Some("merge")]
    /\ LET out == final_path_of(j)
           v == video_temp(out)
           a == audio_temp(out)
       IN IF fs[v] = None
          THEN /\ result' = [result EXCEPT ![j] = Err(<<"Video file not found: ">>)]
               /\ UNCHANGED fs
          ELSE IF fs[a] = None
          THEN /\ result' = [result EXCEPT ![j] = Err(<<"Audio file not found: ">>)]
               /\ UNCHANGED fs
          ELSE \/ /\ result' = [result EXCEPT ![j] =
                        Err(<<"Failed to create output directory: ">> \o IoErrorText)]
                  /\ UNCHANGED fs
               \/ \E outcome \in FfmpegOutcomes :
                    LET after == ffmpeg(fs, v, a, out, j, outcome) IN
                    IF after[out] = None
                    THEN /\ result' = [result EXCEPT ![j] = Err(FfmpegFailed)]
                         /\ fs' = after
                    ELSE /\ result' = [result EXCEPT ![j] = Ok]
                         /\ fs' = delete_originals(after, v, a)
    /\ UNCHANGED <<jobs, cancel_tx, args, pc, total, downloaded, elapsed, chunk,
                   yielded, events, since_progress, http_status, cancel_at,
                   item_after_cancel>>

\* ------------------------------------------------------- other commands
\* as CancelDownload, marking the job Cancelled at once
CancelDownload_SetsStatus(j) ==
    /\ cancel_tx' = cancel_job(cancel_tx, j)
    /\ jobs' = update_job(jobs, j, "Cancelled", None, Some(DownloadCancelled))
    /\ cancel_at' = IF j \in DOMAIN jobs /\ cancel_at[j] = None
                    THEN [cancel_at EXCEPT ![j] = Some(pc[j])]
                    ELSE cancel_at
    /\ UNCHANGED <<args, pc, total, downloaded, elapsed, chunk, result, fs,
                   yielded, events, since_progress, http_status, item_after_cancel>>

CancelDownload(j) ==
    /\ cancel_tx' = cancel_job(cancel_tx, j)
    /\ cancel_at' = IF j \in DOMAIN jobs /\ cancel_at[j] = None
                    THEN [cancel_at EXCEPT ![j] = Some(pc[j])]
                    ELSE cancel_at
    /\ UNCHANGED <<jobs, args, pc, total, downloaded, elapsed, chunk, result, fs,
                   yielded, events, since_progress, http_status, item_after_cancel>>

\* as get_download_status, an error for an id the registry does not hold
get_download_status_ErrIfAbsent(id) ==
    IF id \in DOMAIN jobs THEN <<"Ok", get_job(id)>> ELSE Err(<<"Job not found">>)

\* what the command returns to the caller
get_download_status(id) == <<"Ok", get_job(id)>>

GetDownloadStatus(j) ==
    /\ get_download_status(j)[1] = "Ok"
    /\ UNCHANGED vars

\* ------------------------------------------------------------ wall clock
Timed == {"create", "stream", "write", "flush"}

Later(ms) == Min(ms + TickMs, MaxElapsedMs)

Tick ==
    /\ \E j \in JobIds : pc[j] \in Timed /\ elapsed[j] < MaxElapsedMs
    /\ elapsed' = [j \in JobIds |->
                     IF pc[j] \in Timed THEN Later(elapsed[j]) ELSE elapsed[j]]
    /\ since_progress' = [j \in JobIds |->
                     IF pc[j] \in Timed /\ since_progress[j] # None
                     THEN Some(Later(since_progress[j][1]))
                     ELSE since_progress[j]]
    /\ UNCHANGED <<jobs, cancel_tx, args, pc, total, downloaded, chunk, result, fs,
                   yielded, events, http_status, cancel_at, item_after_cancel>>

\* ========================================================== extract_media
\* A URL string is its host followed by the segments of its path; an input
\* that is not an absolute URL has no scheme.
ExtractInputs ==
    { [scheme |-> FALSE, host |-> "", path |-> <<"clip.mp4">>],
      [scheme |-> TRUE, host |-> "x.com", path |-> <<"user", "status", "123">>],
      [scheme |-> TRUE, host |-> "x.com", path |-> <<"user", "status", "123.mp4">>],
      [scheme |-> TRUE, host |-> "X.COM", path |-> <<"user", "status", "123">>],
      [scheme |-> TRUE, host |-> "x.com", path |-> <<"home">>],
      [scheme |-> TRUE, host |-> "cdn.example", path |-> <<"clip.mp4">>],
      [scheme |-> TRUE, host |-> "www.bilibili.com", path |-> <<"video", "BV1xx411c7mD">>],
      [scheme |-> TRUE, host |-> "www.bilibili.com",
       path |-> <<"video", "BV1xx411c7mD.mp4">>],
      [scheme |-> TRUE, host |-> "b23.tv", path |-> <<"abc">>],
      [scheme |-> TRUE, host |-> "example.com", path |-> <<"page">>] }

\* get_config(): no readable configuration, one without and one with the token
Configs == {<<"Err">>, <<"Ok", None>>, <<"Ok", Some("token")>>}

to_lowercase(word) == IF word = "X.COM" THEN "x.com" ELSE word

\* as Url_parse, taking a string without scheme as a path on no host
Url_parse_Lenient(input) == Some([host |-> to_lowercase(input.host), path |-> input.path])

\* Url::parse: the host comes out in lower case
Url_parse(input) ==
    IF input.scheme
    THEN Some([host |-> to_lowercase(input.host), path |-> input.path])
    ELSE None

\* Url::as_str and the caller's own string, as words
as_str(url) == <<url.host>> \o url.path
url_str(input) == <<input.host>> \o input.path

\* the digits a word starts with
LeadingDigits(word) ==
    CASE word = "123" -> "123"
      [] word = "123.mp4" -> "123"
      [] OTHER -> ""

\* the word ends with one of the two domains of URL_REGEX
EndsWithTwitterDomain(word) ==
    word \in {"twitter.com", "x.com", "mobile.twitter.com", "mobile.x.com"}

\* URL_REGEX.captures: (?:twitter\.com|x\.com)/(?:[^/]+)/status/(\d+)
URL_REGEX_captures(text) ==
    LET at == {i \in 1..Len(text) :
                 /\ i + 3 <= Len(text)
                 /\ EndsWithTwitterDomain(text[i])
                 /\ text[i + 1] # ""
                 /\ text[i + 2] = "status"
                 /\ LeadingDigits(text[i + 3]) # ""}
    IN IF at = {} THEN None
       ELSE Some(LeadingDigits(text[(CHOOSE i \in at : \A k \in at : i <= k) + 3]))

TwitterHosts == {"twitter.com", "x.com", "mobile.twitter.com", "mobile.x.com"}

twitter_matches(url) ==
    /\ url.host \in TwitterHosts
    /\ URL_REGEX_captures(as_str(url)) # None

Extensions ==
    {"mp4", "mkv", "webm", "avi", "mov", "flv", "m3u8", "ts",
     "mp3", "m4a", "aac", "flac", "wav", "ogg", "opus",
     "jpg", "jpeg", "png", "gif", "webp", "bmp", "svg"}

\* what follows the last dot of a word
extension(word) ==
    CASE word = "clip.mp4" -> "mp4"
      [] word = "123.mp4" -> "mp4"
      [] word = "BV1xx411c7mD.mp4" -> "mp4"
      [] OTHER -> ""

direct_matches(url) ==
    /\ url.path # <<>>
    /\ extension(to_lowercase(url.path[Len(url.path)])) \in Extensions

\* the word starts with a match of (BV[\w]+|av\d+), of \w+
IsVideoId(word) == word \in {"BV1xx411c7mD", "BV1xx411c7mD.mp4"}
IsWord(word) == word \in {"BV1xx411c7mD", "BV1xx411c7mD.mp4", "abc", "video",
                          "user", "status", "home", "page", "123", "clip",
                          "123.mp4", "clip.mp4"}

\* VIDEO_REGEX or SHORT_REGEX finds a match in the URL
bilibili_matches(url) ==
    LET text == as_str(url) IN
    \/ \E i \in 1..Len(text) :
         /\ i + 2 <= Len(text)
         /\ text[i] \in {"bilibili.com", "www.bilibili.com"}
         /\ text[i + 1] = "video"
         /\ IsVideoId(text[i + 2])
    \/ \E i \in 1..Len(text) :
         /\ i + 1 <= Len(text)
         /\ text[i] = "b23.tv"
         /\ IsWord(text[i + 1])

matches(who, url) ==
    CASE who = "twitter" -> twitter_matches(url)
      [] who = "direct" -> direct_matches(url)
      [] who = "bilibili" -> bilibili_matches(url)

\* the extractors extract_media asks, in the order it asks them
extractors == <<"twitter", "direct">>

\* the place in extractors of the first one that matches, 0 for none
first_match(url) ==
    LET hits == {i \in 1..Len(extractors) : matches(extractors[i], url)}
    IN IF hits = {} THEN 0 ELSE CHOOSE i \in hits : \A k \in hits : i <= k

\* as dispatch, handing what nobody matches to the direct-link extractor
dispatch_DefaultDirect(url) ==
    IF first_match(url) = 0 THEN "direct" ELSE extractors[first_match(url)]

dispatch(url) ==
    IF first_match(url) = 0 THEN "none" ELSE extractors[first_match(url)]

Call(op, who, what, outcome) ==
    [what |-> what, outcome |-> outcome, who |-> who, op |-> op]

\* the matches calls extract_media makes on the URL
MatchCalls(url) ==
    LET n == IF first_match(url) = 0 THEN Len(extractors) ELSE first_match(url)
    IN [i \in 1..n |->
          Call("matches", extractors[i], "",
               IF matches(extractors[i], url) THEN "true" ELSE "false")]

ExtractErr(kind, from) == Err([kind |-> kind, from |-> from])
MediaInfo(from) == <<"Ok", [source |-> from]>>

\* as uses_auth, the credential never looked at
uses_auth_Never(token) == FALSE

\* do_extract's choice of the authenticated path
uses_auth(token) == token # None

\* get_config().ok().and_then(|c| c.twitter.auth_token)
auth_token_of(cfg) == IF cfg[1] = "Ok" THEN cfg[2] ELSE None

\* extract_media up to its first await: parse, match, and the start of the
\* extractor it delegates to
ExtractMedia(input, cfg) ==
    /\ ex_pc = "idle"
    /\ ex_input' = Some(input)
    /\ LET parsed == Url_parse(input) IN
       IF parsed = None
       THEN /\ ex_result' = ExtractErr("InvalidUrl", "dispatcher")
            /\ ex_trace' = <<Call("parse", "dispatcher", "", "fail")>>
            /\ ex_pc' = "returned"
            /\ UNCHANGED ex_auth
       ELSE LET url == parsed[1]
                who == dispatch(url)
                calls == <<Call("parse", "dispatcher", "", "ok")>> \o MatchCalls(url)
            IN CASE who = "twitter" ->
                      LET token == auth_token_of(cfg)
                          began == calls \o <<Call("get_config", "dispatcher", "", cfg[1]),
                                             Call("extract", "twitter", "", "")>>
                      IN /\ ex_auth' = token
                         /\ ex_trace' = began
                         /\ IF URL_REGEX_captures(url_str(input)) = None
                            THEN /\ ex_result' = ExtractErr("Parse", "tweet_id")
                                 /\ ex_pc' = "returned"
                            ELSE /\ ex_pc' = IF uses_auth(token) THEN "csrf"
                                             ELSE "syndication"
                                 /\ UNCHANGED ex_result
                 [] who = "direct" ->
                      /\ ex_trace' = calls \o <<Call("extract", "direct", "", "")>>
                      /\ ex_pc' = "head"
                      /\ UNCHANGED <<ex_auth, ex_result>>
                 [] OTHER ->
                      /\ ex_result' = ExtractErr("NoExtractor", "dispatcher")
                      /\ ex_trace' = calls
                      /\ ex_pc' = "returned"
                      /\ UNCHANGED ex_auth
    /\ UNCHANGED outside_extract

Request(who, to, outcome) ==
    ex_trace' = Append(ex_trace, Call("request", who, to, outcome))

ReturnExtract(r) ==
    /\ ex_result' = r
    /\ ex_pc' = "returned"

\* ------------------------------------------------------- DirectExtractor
\* the HEAD probe; its failure only leaves the size unknown
DirectExtract ==
    /\ ex_pc = "head"
    /\ \E outcome \in {"transport", "ok"} :
         /\ Request("direct", "head", outcome)
         /\ ReturnExtract(MediaInfo("direct"))
    /\ UNCHANGED <<outside_extract, ex_input, ex_auth>>

\* ------------------------------------------------------ TwitterExtractor
fetch_from_syndication(outcome) ==
    CASE outcome = "transport" -> ExtractErr("Network", "syndication")
      [] outcome = "status" -> ExtractErr("Parse", "syndication")
      [] outcome = "decode" -> ExtractErr("Network", "syndication")
      [] outcome = "no_media" -> ExtractErr("NotAvailable", "syndication")
      [] OTHER -> MediaInfo("syndication")

fetch_guest_token(outcome) ==
    CASE outcome = "transport" -> ExtractErr("Network", "guest_token")
      [] outcome = "status" -> ExtractErr("Parse", "guest_token")
      [] outcome = "decode" -> ExtractErr("Network", "guest_token")
      [] OTHER -> <<"Ok", "guest">>

\* the response to either GraphQL request and what parse_graphql_response
\* makes of it
graphql_result(from, outcome) ==
    CASE outcome = "transport" -> ExtractErr("Network", from)
      [] outcome = "status" -> ExtractErr("Parse", from)
      [] outcome = "tombstone" -> ExtractErr("NotAvailable", from)
      [] outcome = "protected" -> ExtractErr("AuthRequired", from)
      [] OTHER -> MediaInfo(from)

fetch_csrf_token(outcome) ==
    CASE outcome = "transport" -> ExtractErr("Network", "csrf")
      [] outcome = "no_cookie" -> ExtractErr("Parse", "csrf")
      [] OTHER -> <<"Ok", "ct0">>

SyndicationOutcomes == {"transport", "status", "decode", "no_media", "ok"}
GuestTokenOutcomes == {"transport", "status", "decode", "ok"}
GraphqlOutcomes == {"transport", "status", "tombstone", "protected", "ok"}
CsrfOutcomes == {"transport", "no_cookie", "ok"}

\* as after_syndication, the error of the syndication endpoint returned
after_syndication_Propagate(r) == "return"

\* if let Ok(info) = .. { return Ok(info) }: an error goes on to the fallback
after_syndication(r) == IF r[1] = "Ok" THEN "return" ELSE "fallback"

\* as after_guest_token, going on without a token
after_guest_token_Continue(r) == "graphql"

\* fetch_guest_token().await?
after_guest_token(r) == IF r[1] = "Ok" THEN "graphql" ELSE "return"

FetchFromSyndication ==
    /\ ex_pc = "syndication"
    /\ \E outcome \in SyndicationOutcomes :
         LET r == fetch_from_syndication(outcome) IN
         /\ Request("twitter", "syndication", outcome)
         /\ IF after_syndication(r) = "return"
            THEN ReturnExtract(r)
            ELSE /\ ex_pc' = "guest_token"
                 /\ UNCHANGED ex_result
    /\ UNCHANGED <<outside_extract, ex_input, ex_auth>>

FetchGuestToken ==
    /\ ex_pc = "guest_token"
    /\ \E outcome \in GuestTokenOutcomes :
         LET r == fetch_guest_token(outcome) IN
         /\ Request("twitter", "guest_token", outcome)
         /\ IF after_guest_token(r) = "return"
            THEN ReturnExtract(r)
            ELSE /\ ex_pc' = "graphql"
                 /\ UNCHANGED ex_result
    /\ UNCHANGED <<outside_extract, ex_input, ex_auth>>

FetchFromGraphql ==
    /\ ex_pc = "graphql"
    /\ \E outcome \in GraphqlOutcomes :
         /\ Request("twitter", "graphql", outcome)
         /\ ReturnExtract(graphql_result("graphql", outcome))
    /\ UNCHANGED <<outside_extract, ex_input, ex_auth>>

\* fetch_from_graphql_auth up to its request: the CSRF token
FetchCsrfToken ==
    /\ ex_pc = "csrf"
    /\ \E outcome \in CsrfOutcomes :
         LET r == fetch_csrf_token(outcome) IN
         /\ Request("twitter", "csrf", outcome)
         /\ IF r[1] = "Ok"
            THEN /\ ex_pc' = "graphql_auth"
                 /\ UNCHANGED ex_result
            ELSE ReturnExtract(r)
    /\ UNCHANGED <<outside_extract, ex_input, ex_auth>>

FetchFromGraphqlAuth ==
    /\ ex_pc = "graphql_auth"
    /\ \E outcome \in GraphqlOutcomes :
         /\ Request("twitter", "graphql_auth", outcome)
         /\ ReturnExtract(graphql_result("graphql_auth", outcome))
    /\ UNCHANGED <<outside_extract, ex_input, ex_auth>>

\* -------------------------------------------------------- specification
TaskStep(j) ==
    \/ StartDownload_spawn(j)
    \/ EnsureParentDir(j)
    \/ SendRequest(j)
    \/ CreateFile(j)
    \/ StreamNext(j)
    \/ StreamEnd(j)
    \/ WriteChunk(j)
    \/ FlushAndComplete(j)
    \/ Finish(j)

\* one job, single-stream, with any calls of the other two commands
Next ==
    \/ \E u \in Urls, p \in Paths :
          DOMAIN jobs = {} /\ StartDownload(u, p) /\ UNCHANGED <<leg, other_vars>>
    \/ \E j \in JobIds : TaskStep(j) /\ UNCHANGED <<leg, other_vars>>
    \/ \E j \in JobIds : CancelDownload(j) /\ UNCHANGED <<leg, other_vars>>
    \/ \E j \in JobIds : GetDownloadStatus(j)
    \/ Tick /\ UNCHANGED <<leg, other_vars>>

Spec == Init /\ [][Next]_vars

\* the runtime keeps polling a spawned task whose awaited call has returned
FairSpec ==
    Spec /\ \A j \in JobIds : WF_vars(Finish(j) /\ UNCHANGED <<leg, other_vars>>)

\* two jobs side by side: the commands and the two tasks in any order; the
\* servers send no Content-Length and at most one item of the body each
NextConc ==
    \/ \E u \in Urls, p \in Paths :
          /\ Cardinality(DOMAIN jobs) < 2
          /\ ~Contains(u, "cancelled")
          /\ StartDownload(u, p)
          /\ UNCHANGED <<leg, other_vars>>
    \/ \E j \in JobIds :
          /\ TaskStep(j) /\ total'[j] = None /\ yielded'[j] <= 1
          /\ UNCHANGED <<leg, other_vars>>
    \/ \E j \in JobIds : CancelDownload(j) /\ UNCHANGED <<leg, other_vars>>

SpecConc == Init /\ [][NextConc]_vars

\* the runtime polls every spawned task, and each server answers, sends or
\* closes in the end
FairConc ==
    SpecConc /\ \A j \in JobIds :
                   WF_vars(/\ TaskStep(j) /\ total'[j] = None /\ yielded'[j] <= 1
                           /\ UNCHANGED <<leg, other_vars>>)

\* the steps of download(), which one leg of a dual-stream transfer takes
LegStep(j) ==
    \/ EnsureParentDir(j)
    \/ SendRequest(j)
    \/ CreateFile(j)
    \/ StreamNext(j)
    \/ StreamEnd(j)
    \/ WriteChunk(j)
    \/ FlushAndComplete(j)

\* one job, dual-stream, with any calls of cancel_download
NextDual ==
    \/ \E u \in Urls, a \in AudioUrls, p \in Paths :
          DOMAIN jobs = {} /\ StartDownloadDual(u, a, p) /\ UNCHANGED other_vars
    \/ \E j \in JobIds : StartDownload_spawn(j) /\ UNCHANGED <<leg, other_vars>>
    \/ \E j \in JobIds : BeginVideoLeg(j) /\ UNCHANGED other_vars
    \/ \E j \in JobIds :
          /\ leg[j].state \in {"video", "audio"} /\ LegStep(j)
          /\ UNCHANGED <<leg, other_vars>>
    \/ \E j \in JobIds : VideoLegReturned(j) /\ UNCHANGED other_vars
    \/ \E j \in JobIds : AudioLegReturned(j) /\ UNCHANGED other_vars
    \/ \E j \in JobIds : Merge(j) /\ UNCHANGED other_vars
    \/ \E j \in JobIds :
          leg[j].state = "over" /\ Finish(j) /\ UNCHANGED <<leg, other_vars>>
    \/ \E j \in JobIds : CancelDownload(j) /\ UNCHANGED <<leg, other_vars>>

SpecDual == Init /\ [][NextDual]_vars

\* one call of extract_media, on any input and any configuration
NextExtract ==
    \/ \E input \in ExtractInputs, cfg \in Configs : ExtractMedia(input, cfg)
    \/ DirectExtract
    \/ FetchFromSyndication
    \/ FetchGuestToken
    \/ FetchFromGraphql
    \/ FetchCsrfToken
    \/ FetchFromGraphqlAuth

SpecExtract == Init /\ [][NextExtract]_vars

\* ============================================ the parsers of TwitterExtractor
\* A variant is what the parsers read of it: content type, the height that
\* extract_resolution finds in its URL (0 when there is none) and bitrate.
Variant(content_type, height, bitrate) ==
    [content_type |-> content_type, height |-> height, bitrate |-> bitrate]

VariantLists ==
    { <<>>,
      <<Variant("video/mp4", 0, 0)>>,
      <<Variant("application/x-mpegURL", 0, 0), Variant("video/mp4", 720, 832000)>>,
      <<Variant("video/mp4", 720, 832000), Variant("video/mp4", 1080, 2176000)>>,
      <<Variant("video/mp4", 720, 832000), Variant("video/mp4", 720, 950000)>> }

\* original_info of a photo: absent, or with the height the payload gives
PhotoHeights == {None, Some(0), Some(720), Some(1080)}

PhotoExts == {"jpg", "png"}

\* one entry of the media list
MediaItems ==
    {[height |-> None, type |-> "video", video_info |-> Some(vs), ext |-> ""] :
        vs \in VariantLists}
    \cup {[height |-> None, type |-> "animated_gif", video_info |-> None, ext |-> ""]}
    \cup {[height |-> h, type |-> "photo", video_info |-> None, ext |-> e] :
            e \in PhotoExts, h \in PhotoHeights}
    \cup {[height |-> None, type |-> "poll", video_info |-> None, ext |-> ""]}

RECURSIVE SeqsUpTo(_, _)
SeqsUpTo(S, n) ==
    IF n = 0 THEN {<<>>}
    ELSE LET shorter == SeqsUpTo(S, n - 1)
         IN shorter \cup {Append(q, x) : q \in shorter, x \in S}

MediaLists == SeqsUpTo(MediaItems, MaxMedia)

\* a Format, as far as the parsers and their callers look at it; url names
\* the place of its source in the upstream payload
Format(id, url, ext, height) ==
    [url |-> url, id |-> id, height |-> height, ext |-> ext]

\* variant.content_type != "video/mp4" => continue
is_mp4(content_type) == content_type = "video/mp4"

\* the formats of the variants of one video
RECURSIVE variant_formats(_, _, _)
variant_formats(vs, m, i) ==
    IF i > Len(vs) THEN <<>>
    ELSE (IF is_mp4(vs[i].content_type)
          THEN <<Format(<<"mp4", vs[i].bitrate>>, <<m, i>>, "mp4",
                        IF vs[i].height > 0 THEN Some(vs[i].height) ELSE None)>>
          ELSE <<>>)
         \o variant_formats(vs, m, i + 1)

\* the loop over the media list, which both parsers have
RECURSIVE media_formats(_, _)
media_formats(media, m) ==
    IF m > Len(media) THEN <<>>
    ELSE (CASE media[m].type \in {"video", "animated_gif"} ->
                 IF media[m].video_info # None
                 THEN variant_formats(media[m].video_info[1], m, 1)
                 ELSE <<>>
            [] media[m].type = "photo" ->
                 <<Format("photo", <<m, 0>>, media[m].ext, media[m].height)>>
            [] OTHER -> <<>>)
         \o media_formats(media, m + 1)

\* a.height.unwrap_or(0)
height_key(f) == IF f.height = None THEN 0 ELSE f.height[1]

\* slice::sort_by is stable: an element goes behind every element that does
\* not compare greater
\* how many of the sorted formats stay in front of f
stays_before(front, f) ==
    Cardinality({i \in 1..Len(front) : height_key(front[i]) >= height_key(f)})

insert_behind(front, f, n) ==
    SubSeq(front, 1, n) \o <<f>> \o SubSeq(front, n + 1, Len(front))

RECURSIVE sort_by_height(_)
sort_by_height(formats) ==
    IF formats = <<>> THEN <<>>
    ELSE insert_behind(sort_by_height(SubSeq(formats, 1, Len(formats) - 1)),
                       formats[Len(formats)],
                       stays_before(sort_by_height(SubSeq(formats, 1, Len(formats) - 1)),
                                    formats[Len(formats)]))

\* as media_type_of, by the first format only
media_type_of_First(formats) == IF formats[1].ext = "mp4" THEN "Video" ELSE "Image"

media_type_of(formats) ==
    IF \E i \in 1..Len(formats) : formats[i].ext = "mp4" THEN "Video" ELSE "Image"

ParseErr(kind) == Err([kind |-> kind, from |-> "parse"])

\* what both parsers do with the formats they collected
finish_formats(formats) ==
    IF formats = <<>> THEN ParseErr("NotAvailable")
    ELSE <<"Ok", [formats |-> sort_by_height(formats),
                  media_type |-> media_type_of(sort_by_height(formats))]>>

\* --------------------------------------------------- parse_graphql_response
Typenames == {"Tweet", "TweetWithVisibilityResults", "TweetTombstone", "TweetUnavailable"}
Reasons == {None, Some("NsfwLoggedOut"), Some("Protected"), Some("Suspended")}

Legacy(media) == [extended_entities |-> media]

\* the decoded bodies: every discriminator and reason with and without
\* media, and a plain tweet with every media list
GraphqlBodies ==
    {[result |-> None, decodes |-> FALSE]}
    \cup {[result |-> None, decodes |-> TRUE]}
    \cup {[result |-> Some([typename |-> t, reason |-> r, legacy |-> l,
                            tweet |-> None]),
           decodes |-> TRUE] :
            t \in Typenames, r \in Reasons,
            l \in {None, Some(Legacy(None)),
                   Some(Legacy(Some(<<[height |-> Some(720), type |-> "photo",
                                       video_info |-> None, ext |-> "jpg"]>>)))}}
    \cup {[result |-> Some([typename |-> "TweetWithVisibilityResults",
                            reason |-> None, legacy |-> None,
                            tweet |-> Some(Legacy(Some(media)))]),
           decodes |-> TRUE] :
            media \in MediaLists}
    \cup {[result |-> Some([typename |-> "Tweet", reason |-> None,
                            legacy |-> Some(Legacy(Some(media))), tweet |-> None]),
           decodes |-> TRUE] :
            media \in MediaLists}

\* as classify_result, the media looked at before the discriminator
classify_result_MediaFirst(res) ==
    IF res.legacy # None /\ res.legacy[1].extended_entities # None
    THEN None
    ELSE CASE res.typename = "TweetTombstone" -> Some(ParseErr("NotAvailable"))
           [] res.typename = "TweetUnavailable" ->
                IF res.reason \in {Some("NsfwLoggedOut"), Some("Protected")}
                THEN Some(ParseErr("AuthRequired"))
                ELSE Some(ParseErr("NotAvailable"))
           [] OTHER -> None

\* the match on the discriminator: the error it returns, if it returns
classify_result(res) ==
    CASE res.typename = "TweetTombstone" -> Some(ParseErr("NotAvailable"))
      [] res.typename = "TweetUnavailable" ->
           IF res.reason \in {Some("NsfwLoggedOut"), Some("Protected")}
           THEN Some(ParseErr("AuthRequired"))
           ELSE Some(ParseErr("NotAvailable"))
      [] OTHER -> None

\* result.legacy.or(result.tweet.and_then(|t| t.legacy))
legacy_of(res) == IF res.legacy # None THEN res.legacy ELSE res.tweet

parse_graphql_response(body) ==
    IF ~body.decodes THEN ParseErr("Parse")
    ELSE IF body.result = None THEN ParseErr("NotAvailable")
    ELSE IF classify_result(body.result[1]) # None
         THEN classify_result(body.result[1])[1]
    ELSE IF legacy_of(body.result[1]) = None THEN ParseErr("Parse")
    ELSE IF legacy_of(body.result[1])[1].extended_entities = None
         THEN ParseErr("NotAvailable")
    ELSE finish_formats(media_formats(legacy_of(body.result[1])[1].extended_entities[1], 1))

\* ----------------------------------------------- parse_syndication_response
\* the video field of a single-video tweet: content type and, if there is a
\* src, the height found in it
VideoFields ==
    { None,
      Some(<<[type |-> "video/mp4", src |-> None]>>),
      Some(<<[type |-> "application/x-mpegURL", src |-> Some(0)],
             [type |-> "video/mp4", src |-> Some(0)],
             [type |-> "video/mp4", src |-> Some(720)]>>) }

SyndicationBodies ==
    {[media_details |-> md, video |-> v] :
        md \in {None} \cup {Some(media) : media \in MediaLists}, v \in VideoFields}

RECURSIVE video_formats(_, _)
video_formats(vs, i) ==
    IF i > Len(vs) THEN <<>>
    ELSE (IF is_mp4(vs[i].type) /\ vs[i].src # None
          THEN <<Format("mp4_direct", <<0, i>>, "mp4",
                        IF vs[i].src[1] > 0 THEN Some(vs[i].src[1]) ELSE None)>>
          ELSE <<>>)
         \o video_formats(vs, i + 1)

\* the formats of media_details, [] when the field is absent
details_formats(data) ==
    IF data.media_details # None THEN media_formats(data.media_details[1], 1) ELSE <<>>

parse_syndication_response(data) ==
    finish_formats(IF details_formats(data) = <<>> /\ data.video # None
                   THEN video_formats(data.video[1], 1)
                   ELSE details_formats(data))

Apply(fn, arg, res) ==
    /\ call = NoCall
    /\ call' = [result |-> res, fn |-> fn, arg |-> arg]
    /\ UNCHANGED <<download_vars, extract_vars, wbi_key>>

ParseGraphqlResponse(body) ==
    Apply("parse_graphql_response", body, parse_graphql_response(body))

ParseSyndicationResponse(data) ==
    Apply("parse_syndication_response", data, parse_syndication_response(data))

\* one response handed to one of the two parsers
NextParse ==
    \/ \E body \in GraphqlBodies : ParseGraphqlResponse(body)
    \/ \E data \in SyndicationBodies : ParseSyndicationResponse(data)

SpecParse == Init /\ [][NextParse]_vars

\* ====================================== the BV/AV id codec of bilibili.rs
\* An i64 is its four 16-bit words in two's complement, lowest first, so that
\* the bitwise operations and the range tests are the code's.
Zero == <<0, 0, 0, 0>>

One == <<1, 0, 0, 0>>

\* the truth tables of ^, & and |, for the bits 0 and 1
XorTable == <<<<0, 1>>, <<1, 0>>>>
AndTable == <<<<0, 0>>, <<0, 1>>>>
OrTable == <<<<0, 1>>, <<1, 1>>>>

\* a bitwise operation on two words
RECURSIVE word_op(_, _, _, _)
word_op(table, x, y, n) ==
    IF n = 0 THEN 0
    ELSE table[(x % 2) + 1][(y % 2) + 1] + 2 * word_op(table, x \div 2, y \div 2, n - 1)

bit_op(table, a, b) ==
    << word_op(table, a[1], b[1], 16), word_op(table, a[2], b[2], 16),
       word_op(table, a[3], b[3], 16), word_op(table, a[4], b[4], 16) >>

BitXor(a, b) == bit_op(XorTable, a, b)

BitAnd(a, b) == bit_op(AndTable, a, b)

BitOr(a, b) == bit_op(OrTable, a, b)

IsNegative(a) == a[4] >= 32768

\* a < b on u64
RECURSIVE below_from(_, _, _)
below_from(a, b, i) ==
    IF i = 0 THEN FALSE
    ELSE IF a[i] # b[i] THEN a[i] < b[i]
    ELSE below_from(a, b, i - 1)

\* a < b on i64
Lt(a, b) ==
    IF IsNegative(a) # IsNegative(b) THEN IsNegative(a) ELSE below_from(a, b, 4)

\* a * m + d for small m and d, wrapping at 64 bits
RECURSIVE mul_add_from(_, _, _, _)
mul_add_from(a, m, carry, i) ==
    IF i > 4 THEN <<>>
    ELSE <<(a[i] * m + carry) % 65536>>
         \o mul_add_from(a, m, (a[i] * m + carry) \div 65536, i + 1)

MulAdd(a, m, d) == mul_add_from(a, m, d, 1)

\* (a >> 16 * i) % m of a non-negative a and a small m
RECURSIVE rem_above(_, _, _)
rem_above(a, m, i) ==
    IF i >= 4 THEN 0 ELSE (65536 * rem_above(a, m, i + 1) + a[i + 1]) % m

Rem(a, m) == rem_above(a, m, 0)

\* a word of a / m: what the word of a and the remainder left above it give
div_word(a, m, i) == (65536 * rem_above(a, m, i) + a[i]) \div m

Div(a, m) == <<div_word(a, m, 1), div_word(a, m, 2), div_word(a, m, 3), div_word(a, m, 4)>>

\* 23442827791579 = 0x1552356C4CDB
XOR_CODE == <<19675, 13676, 5458, 0>>

\* (1 << 51) - 1
MASK_CODE == <<65535, 65535, 65535, 7>>

\* MASK_CODE + 1
MAX_AID == <<0, 0, 0, 8>>

BASE == 58

BV_LEN == 9

ALPHABET ==
    << "F", "c", "w", "A", "P", "N", "K", "T", "M", "u", "g", "3", "G", "V", "5",
       "L", "j", "7", "E", "J", "n", "H", "p", "W", "s", "x", "4", "t", "b", "8",
       "h", "a", "Y", "e", "v", "i", "q", "B", "z", "6", "r", "k", "C", "y", "1",
       "2", "m", "U", "S", "D", "Q", "X", "9", "R", "d", "o", "Z", "f" >>

\* rev_alphabet()[b]: the place of the byte in ALPHABET, 0 for any other byte
rev_alphabet(b) ==
    IF \E i \in 1..Len(ALPHABET) : ALPHABET[i] = b
    THEN (CHOOSE i \in 1..Len(ALPHABET) : ALPHABET[i] = b) - 1
    ELSE 0

\* A string is the sequence of its characters. An ASCII character stands for
\* its one byte; the others are named by their code point and have the bytes
\* of their UTF-8 encoding.
Utf8 ==
    [c \in {"U+00E9", "U+4E2D"} |->
        IF c = "U+00E9" THEN <<"0xC3", "0xA9">> ELSE <<"0xE4", "0xB8", "0xAD">>]

utf8(c) == IF c \in DOMAIN Utf8 THEN Utf8[c] ELSE <<c>>

RECURSIVE bytes(_)
bytes(s) == IF s = <<>> THEN <<>> ELSE utf8(Head(s)) \o bytes(Tail(s))

\* char::to_uppercase of the characters the ids are written in
to_uppercase_char(c) ==
    CASE c = "b" -> "B"
      [] c = "v" -> "V"
      [] c = "a" -> "A"
      [] OTHER -> c

RECURSIVE to_uppercase(_)
to_uppercase(s) ==
    IF s = <<>> THEN <<>> ELSE <<to_uppercase_char(Head(s))>> \o to_uppercase(Tail(s))

starts_with(s, prefix) ==
    Len(s) >= Len(prefix) /\ SubSeq(s, 1, Len(prefix)) = prefix

\* &bvid[3..], &bvid[2..] or bvid: the bytes left of it
strip_prefix(bvid) ==
    IF starts_with(bytes(to_uppercase(bvid)), <<"B", "V", "1">>)
    THEN SubSeq(bytes(bvid), 4, Len(bytes(bvid)))
    ELSE IF starts_with(bytes(to_uppercase(bvid)), <<"B", "V">>)
    THEN SubSeq(bytes(bvid), 3, Len(bytes(bvid)))
    ELSE bytes(bvid)

\* bv.swap(0, 6); bv.swap(1, 4)
swap_positions(bv) ==
    <<bv[7], bv[5], bv[3], bv[4], bv[2], bv[6], bv[1], bv[8], bv[9]>>

\* for b in bv.iter() { avid = avid * BASE + rev[b] }
RECURSIVE base58_value(_)
base58_value(bv) ==
    IF bv = <<>> THEN Zero
    ELSE MulAdd(base58_value(SubSeq(bv, 1, Len(bv) - 1)), BASE, rev_alphabet(bv[Len(bv)]))

\* as unmask, the mask forgotten
unmask_NoMask(avid) == BitXor(avid, XOR_CODE)

\* (avid & MASK_CODE) ^ XOR_CODE
unmask(avid) == BitXor(BitAnd(avid, MASK_CODE), XOR_CODE)

bv_to_av(bvid) ==
    IF Len(strip_prefix(bvid)) # BV_LEN THEN Err("invalid BV ID length")
    ELSE <<"Ok", unmask(base58_value(swap_positions(strip_prefix(bvid))))>>

\* as masked, the top bit forgotten
masked_NoTopBit(avid) == BitXor(avid, XOR_CODE)

\* (MAX_AID | avid) ^ XOR_CODE
masked(avid) == BitXor(BitOr(MAX_AID, avid), XOR_CODE)

\* the loop that fills bvid from its last place, tmp being what is left
RECURSIVE base58_digits(_, _)
base58_digits(tmp, i) ==
    IF i = 0 THEN <<>>
    ELSE base58_digits(Div(tmp, BASE), i - 1)
         \o <<IF tmp = Zero THEN "0x00" ELSE ALPHABET[Rem(tmp, BASE) + 1]>>

av_to_bv(avid) ==
    IF Lt(avid, One) THEN Err("smaller than 1")
    ELSE IF ~Lt(avid, MAX_AID) THEN Err("bigger than MAX_AID")
    ELSE <<"Ok", <<"B", "V", "1">> \o swap_positions(base58_digits(masked(avid), BV_LEN))>>

\* the numeric ids tried: ids below 1, in range and from 2^51 on, with the
\* neighbours of the limits
LowWords == {0, 1, 65535}

HighWords == {0, 7, 8, 32768, 65535}

Aids ==
    {<<w1, w2, w3, w4>> : w1 \in LowWords, w2 \in LowWords, w3 \in LowWords,
                          w4 \in HighWords}
    \cup {XOR_CODE, BitXor(XOR_CODE, One)}

\* the encoded ids tried: the example, with up to two of its places changed,
\* and strings of other lengths and characters
Symbols == {"F", "f", "1"}

Example == <<"B", "V", "1", "x", "x", "4", "1", "1", "c", "7", "m", "D">>

Bvids ==
    {SubSeq([i \in 1..Len(Example) |-> IF i \in S THEN c ELSE Example[i]],
            1, Len(Example)) :
        S \in {T \in SUBSET (4..Len(Example)) : Cardinality(T) <= 2}, c \in Symbols}
    \cup {<<"B", "V", "1", "F", "F", "F", "F", "F", "F", "F", "F", "F">>,
          SubSeq(Example, 1, 11), Example \o <<"D">>, SubSeq(Example, 4, 12),
          <<"b", "v", "1">> \o SubSeq(Example, 4, 12),
          <<"B", "V">> \o SubSeq(Example, 4, 12),
          <<"B", "V", "1", "U+4E2D", "U+4E2D", "U+4E2D">>,
          <<"B", "V", "1", "x", "x", "4", "1", "1", "c", "7", "m", "U+00E9">>,
          <<>>}

BvToAv(bvid) == Apply("bv_to_av", bvid, bv_to_av(bvid))

AvToBv(avid) == Apply("av_to_bv", avid, av_to_bv(avid))

\* one id handed to one of the two conversions
NextCodec ==
    \/ \E bvid \in Bvids : BvToAv(bvid)
    \/ \E avid \in Aids : AvToBv(avid)

SpecCodec == Init /\ [][NextCodec]_vars

\* ============================================ BilibiliExtractor::build_formats
\* the video streams tried: quality ids of one, two and three digits, two
\* codecs, two heights
QualityIds == {16, 80, 116, 127}

CodecIds == {7, 12}

StreamHeights == {360, 1080}

VideoStreams ==
    {[id |-> q, height |-> h, codecid |-> c] :
        h \in StreamHeights, q \in QualityIds, c \in CodecIds}

\* the audio streams, by bandwidth
AudioLists ==
    {None, Some(<<>>), Some(<<96000>>), Some(<<64000, 128000>>),
     Some(<<128000, 64000>>), Some(<<64000, 64000>>)}

DashInfos ==
    {[video |-> v, audio |-> a] : v \in SeqsUpTo(VideoStreams, MaxStreams),
                                  a \in AudioLists}

Digits == <<"0", "1", "2", "3", "4", "5", "6", "7", "8", "9">>

\* i32::to_string of a number that is not negative
RECURSIVE to_string(_)
to_string(n) ==
    IF n < 10 THEN <<Digits[n + 1]>>
    ELSE to_string(n \div 10) \o <<Digits[(n % 10) + 1]>>

\* the bytes the ids are written in, in the order of their values
ByteOrder ==
    Digits \o <<"_", "a", "b", "c", "d", "e", "f", "g", "h", "i", "j", "k", "l", "m",
               "n", "o", "p", "q", "r", "s", "t", "u", "v", "w", "x", "y", "z">>

byte_rank(c) == CHOOSE k \in 1..Len(ByteOrder) : ByteOrder[k] = c

\* str::cmp: byte by byte, a proper prefix being less
RECURSIVE str_cmp(_, _)
str_cmp(a, b) ==
    IF a = <<>> /\ b = <<>> THEN "Equal"
    ELSE IF a = <<>> THEN "Less"
    ELSE IF b = <<>> THEN "Greater"
    ELSE IF byte_rank(Head(a)) < byte_rank(Head(b)) THEN "Less"
    ELSE IF byte_rank(Head(a)) > byte_rank(Head(b)) THEN "Greater"
    ELSE str_cmp(Tail(a), Tail(b))

\* audios.iter().max_by_key(|a| a.bandwidth)
\* as best_audio, the first stream taken
best_audio_First(audio) ==
    IF audio = None \/ audio[1] = <<>> THEN None ELSE Some(1)

\* HashMap::insert
insert(map, k, v) == (k :> v) @@ map

\* the request headers the CDN asks for
cdn_headers ==
    insert(insert(<<>>, "Referer", "https://www.bilibili.com/"),
           "User-Agent", "Mozilla/5.0")

best_audio(audio) ==
    IF audio = None \/ audio[1] = <<>> THEN None
    ELSE Some(CHOOSE k \in 1..Len(audio[1]) :
                \A l \in 1..Len(audio[1]) :
                    \/ audio[1][l] < audio[1][k]
                    \/ (audio[1][l] = audio[1][k] /\ l <= k))

\* format!("{}_{}", video.id, video.codecid)
format_id(video) == to_string(video.id) \o <<"_">> \o to_string(video.codecid)

\* the Format of the i-th video stream; url names the stream
RECURSIVE stream_formats(_, _, _)
stream_formats(video, audio_url, i) ==
    IF i > Len(video) THEN <<>>
    ELSE <<[url |-> i, id |-> format_id(video[i]), audio_url |-> audio_url,
            height |-> Some(video[i].height), ext |-> "mp4",
            headers |-> cdn_headers]>>
         \o stream_formats(video, audio_url, i + 1)

\* a.id.cmp(&b.id)
id_order(a, b) == str_cmp(a, b)

\* the comparator of the sort says a does not come after b
not_after(a, b) ==
    IF height_key(a) # height_key(b) THEN height_key(a) > height_key(b)
    ELSE id_order(b.id, a.id) # "Greater"

stays_in_front(front, f) == Cardinality({i \in 1..Len(front) : not_after(front[i], f)})

\* formats.sort_by(..): stable
RECURSIVE sort_formats(_)
sort_formats(formats) ==
    IF formats = <<>> THEN <<>>
    ELSE insert_behind(sort_formats(SubSeq(formats, 1, Len(formats) - 1)),
                       formats[Len(formats)],
                       stays_in_front(sort_formats(SubSeq(formats, 1, Len(formats) - 1)),
                                      formats[Len(formats)]))

build_formats(streams) ==
    sort_formats(stream_formats(streams.video, best_audio(streams.audio), 1))

BuildFormats(streams) == Apply("build_formats", streams, build_formats(streams))

\* one manifest handed to build_formats
NextFormats == call = NoCall /\ \E streams \in DashInfos : BuildFormats(streams)

SpecFormats == Init /\ [][NextFormats]_vars

\* =========================================================== BilibiliExtractor
\* BilibiliExtractor::extract, called with the URL as a string. The texts of
\* the requests and of the responses are sequences of words.
BiliUrls ==
    { <<"www.bilibili.com", "video", "BV1xx411c7mD">>,
      <<"www.bilibili.com", "video", "av2">>,
      <<"www.bilibili.com", "video", "av0">>,
      <<"www.bilibili.com", "video", "BV1xx">>,
      <<"b23.tv", "abc">> }

\* the characters of the words that stand where a video id does
chars(word) ==
    CASE word = "BV1xx411c7mD" -> Example
      [] word = "BV1xx" -> <<"B", "V", "1", "x", "x">>
      [] word = "av2" -> <<"a", "v", "2">>
      [] word = "av0" -> <<"a", "v", "0">>
      [] word = "avid" -> <<"a", "v", "i", "d">>
      [] word = "cid" -> <<"c", "i", "d">>
      [] word = "fnval" -> <<"f", "n", "v", "a", "l">>
      [] word = "fnver" -> <<"f", "n", "v", "e", "r">>
      [] word = "fourk" -> <<"f", "o", "u", "r", "k">>
      [] word = "qn" -> <<"q", "n">>
      [] word = "wts" -> <<"w", "t", "s">>
      [] word = "w_rid" -> <<"w", "_", "r", "i", "d">>
      [] word = "mixin_key" -> <<"m", "i", "x", "i", "n", "_", "k", "e", "y">>
      [] word = "yek_nixim" -> <<"y", "e", "k", "_", "n", "i", "x", "i", "m">>
      [] OTHER -> <<>>

IsDigits(cs) == cs # <<>> /\ \A i \in 1..Len(cs) : \E k \in 1..Len(Digits) : Digits[k] = cs[i]

\* (BV[\w]+|av\d+)
is_video_id(cs) ==
    /\ Len(cs) >= 3
    /\ \/ SubSeq(cs, 1, 2) = <<"B", "V">>
       \/ SubSeq(cs, 1, 2) = <<"a", "v">> /\ IsDigits(SubSeq(cs, 3, Len(cs)))

\* VIDEO_REGEX.captures(url).get(1)
VIDEO_REGEX_captures(text) ==
    IF \E i \in 1..Len(text) - 2 :
          /\ text[i] \in {"bilibili.com", "www.bilibili.com"}
          /\ text[i + 1] = "video"
          /\ is_video_id(chars(text[i + 2]))
    THEN Some(text[(CHOOSE i \in 1..Len(text) - 2 :
                      /\ text[i] \in {"bilibili.com", "www.bilibili.com"}
                      /\ text[i + 1] = "video"
                      /\ is_video_id(chars(text[i + 2]))) + 2])
    ELSE None

\* (?i)^BV1[\w]{9}$
BV_REGEX_is_match(cs) ==
    Len(cs) = 3 + BV_LEN /\ to_uppercase(SubSeq(cs, 1, 3)) = <<"B", "V", "1">>

\* (?i)^av(\d+)$
AV_REGEX_captures(cs) ==
    IF /\ Len(cs) >= 3
       /\ to_uppercase(SubSeq(cs, 1, 2)) = <<"A", "V">>
       /\ IsDigits(SubSeq(cs, 3, Len(cs)))
    THEN Some(SubSeq(cs, 3, Len(cs)))
    ELSE None

\* str::parse::<i64> of a few digits
RECURSIVE parse_i64(_)
parse_i64(digits) ==
    IF digits = <<>> THEN Zero
    ELSE MulAdd(parse_i64(SubSeq(digits, 1, Len(digits) - 1)), 10,
                byte_rank(digits[Len(digits)]) - 1)

Ids(aid, bvid) == <<"Ok", [aid |-> aid, bvid |-> bvid]>>

\* resolve_video_id, from the resolved URL on
extract_video_id(resolved) ==
    IF VIDEO_REGEX_captures(resolved) = None
    THEN ExtractErr("Parse", "resolve_video_id")
    ELSE IF BV_REGEX_is_match(chars(VIDEO_REGEX_captures(resolved)[1]))
    THEN (IF bv_to_av(chars(VIDEO_REGEX_captures(resolved)[1]))[1] = "Ok"
          THEN Ids(bv_to_av(chars(VIDEO_REGEX_captures(resolved)[1]))[2],
                   chars(VIDEO_REGEX_captures(resolved)[1]))
          ELSE ExtractErr("Parse", "bv_to_av"))
    ELSE IF AV_REGEX_captures(chars(VIDEO_REGEX_captures(resolved)[1])) # None
    THEN (IF av_to_bv(parse_i64(AV_REGEX_captures(
                        chars(VIDEO_REGEX_captures(resolved)[1]))[1]))[1] = "Ok"
          THEN Ids(parse_i64(AV_REGEX_captures(
                        chars(VIDEO_REGEX_captures(resolved)[1]))[1]),
                   av_to_bv(parse_i64(AV_REGEX_captures(
                        chars(VIDEO_REGEX_captures(resolved)[1]))[1]))[2])
          ELSE ExtractErr("Parse", "av_to_bv"))
    ELSE ExtractErr("Parse", "resolve_video_id")

\* what the HEAD request for a short link comes back with
HeadResponses ==
    { <<"transport error">>,
      <<"302", "www.bilibili.com", "video", "BV1xx411c7mD">>,
      <<"302", "www.bilibili.com", "home">>,
      <<"302">>,
      <<"200">> }

resolve_short_url(short_url, response) ==
    IF response = <<"transport error">> THEN ExtractErr("Network", "resolve_short_url")
    ELSE IF response[1] = "302" /\ Len(response) > 1 THEN <<"Ok", Tail(response)>>
    ELSE <<"Ok", short_url>>

\* self.resolve_short_url(url_str).await?
after_short_url(r) == IF r[1] = "Ok" THEN "continue" ELSE "return"

\* What the three GET requests come back with: a transport error, a body
\* that is no JSON, or the fields of the JSON object, each with its value.
Failed(how) == <<<<"error", how>>>>

Code(n) == <<"code", n>>
Message(text) == <<"message", text>>
Data(members) == <<"data", members>>

NavResponses ==
    { Failed("transport"), Failed("not json"),
      <<Code("-101"), Message("not logged in"), Data(<<>>)>>,
      <<Code("-101"), Message("not logged in"), Data(<<"wbi_img">>)>>,
      <<Code("0"), Message("0"), Data(<<"wbi_img">>)>> }

\* data.pages is the list "pages", with one "page" in it or none
ViewResponses ==
    { Failed("transport"), Failed("not json"),
      <<Code("-400"), Message("request error")>>,
      <<Code("-400"), Message("request error"), Data(<<"pages", "page">>)>>,
      <<Code("0"), Message("0"), Data(<<"pages">>)>>,
      <<Code("0"), Message("0"), Data(<<"pages", "page">>)>> }

\* data.dash is the manifest "dash", with one "video" stream in it or none
PlayResponses ==
    { Failed("transport"),
      <<Code("-404"), Message("nothing found")>>,
      <<Code("-404"), Message("nothing found"), Data(<<>>)>>,
      <<Code("0"), Message("0"), Data(<<>>)>>,
      <<Code("0"), Message("0"), Data(<<"dash">>)>>,
      <<Code("0"), Message("0"), Data(<<"dash", "video">>)>> }

has_field(response, name) == \E k \in 1..Len(response) : response[k][1] = name

field(response, name) ==
    response[CHOOSE k \in 1..Len(response) : response[k][1] = name][2]

\* resp.json::<T>() succeeds: the body is an object with the fields that the
\* struct requires, and its data has the members that its struct requires
decodes(response, fields, members) ==
    /\ \A k \in 1..Len(fields) : has_field(response, fields[k])
    /\ \A k \in 1..Len(members) : Contains(field(response, "data"), members[k])

\* ExtractError::Parse(format!("API error: {} (code: {})", data.message, data.code))
ApiError(from, response) ==
    Err([code |-> field(response, "code"), kind |-> "Parse", from |-> from,
         message |-> field(response, "message")])

\* fetch_wbi_keys: the key it stores, or its error
fetch_wbi_keys(response) ==
    IF decodes(response, <<"data">>, <<"wbi_img">>) THEN <<"Ok", Some("mixin_key")>>
    ELSE ExtractErr("Network", "fetch_wbi_keys")

\* as after_wbi_keys, the error returned with ?
after_wbi_keys_Propagate(r) == IF r[1] = "Ok" THEN "continue" ELSE "return"

\* if let Err(e) = self.fetch_wbi_keys().await { eprintln!(..) }
after_wbi_keys(r) == "continue"

\* fetch_video_info: the pages of the video, or its error
fetch_video_info(response) ==
    IF ~decodes(response, <<"code", "message", "data">>, <<"pages">>)
    THEN ExtractErr("Network", "fetch_video_info")
    ELSE IF field(response, "code") # "0" THEN ApiError("fetch_video_info", response)
    ELSE <<"Ok", IF Contains(field(response, "data"), "page") THEN <<"cid">> ELSE <<>>>>

\* self.fetch_video_info(aid).await? and video_info.pages.first()
after_video_info(r) ==
    IF r[1] # "Ok" THEN r
    ELSE IF r[2] = <<>> THEN ExtractErr("Parse", "no video pages found")
    ELSE <<"Ok", r[2][1]>>

\* BTreeMap::insert: the entries, <<key, value>>, stay in the order of their
\* keys, and an entry of the same key is replaced
btree_insert(map, k, v) ==
    SelectSeq(map, LAMBDA e : str_cmp(chars(e[1]), chars(k)) = "Less")
      \o << <<k, v>> >>
      \o SelectSeq(map, LAMBDA e : str_cmp(chars(e[1]), chars(k)) = "Greater")

\* the parameters of the manifest request, inserted as fetch_play_url does
play_params(aid, cid) ==
    btree_insert(
      btree_insert(
        btree_insert(
          btree_insert(
            btree_insert(
              btree_insert(<<>>, "avid", aid),
              "cid", cid),
            "fnval", <<"4", "0", "4", "8">>),
          "fnver", <<"0">>),
        "fourk", <<"1">>),
      "qn", <<"1", "2", "7">>)

filter_wbi_value(s) == SelectSeq(s, LAMBDA c : c \notin {"!", "'", "(", ")", "*"})

\* urlencoding::encode of one character: letters, digits and -_.~ stay
encode_char(c) ==
    CASE c = " " -> <<"%", "2", "0">>
      [] c = "!" -> <<"%", "2", "1">>
      [] c = "&" -> <<"%", "2", "6">>
      [] c = "=" -> <<"%", "3", "D">>
      [] OTHER -> <<c>>

RECURSIVE encode(_)
encode(s) == IF s = <<>> THEN <<>> ELSE encode_char(Head(s)) \o encode(Tail(s))

\* the parts "key=value", joined by "&"; values filtered first if asked
RECURSIVE joined(_, _)
joined(params, filtered) ==
    IF params = <<>> THEN <<>>
    ELSE chars(params[1][1]) \o <<"=">>
           \o encode(IF filtered THEN filter_wbi_value(params[1][2]) ELSE params[1][2])
           \o (IF Len(params) = 1 THEN <<>> ELSE <<"&">> \o joined(Tail(params), filtered))

build_query(params) == joined(params, FALSE)

\* the characters a query and a key are written in, and the hex digits
Alphabet == <<"%", "&", "=">> \o ByteOrder

HexDigits == Digits \o <<"a", "b", "c", "d", "e", "f">>

\* md5::compute and {:x}. The digest is a function of the bytes in their
\* order; a 16-bit checksum, computed over the halves of the text, stands
\* for the 128 bits of MD5.
RECURSIVE checksum(_, _, _)
checksum(text, from, to) ==
    IF from > to THEN 7
    ELSE IF from = to THEN CHOOSE k \in 1..Len(Alphabet) : Alphabet[k] = text[from]
    ELSE (checksum(text, from, (from + to) \div 2) * 31
            + checksum(text, ((from + to) \div 2) + 1, to) * 17 + 1) % 65536

hex4(n) ==
    << HexDigits[(n \div 4096) + 1], HexDigits[((n \div 256) % 16) + 1],
       HexDigits[((n \div 16) % 16) + 1], HexDigits[(n % 16) + 1] >>

md5(text) == hex4(checksum(text, 1, Len(text)))

\* as signature_input, the key before the query
signature_input_KeyFirst(query_str, key) == key \o query_str

\* format!("{}{}", query_str, wbi_key)
signature_input(query_str, key) == query_str \o key

\* wbi_sign at the time now (seconds since the epoch): the query string
wbi_sign(key, params, now) ==
    IF key = None THEN build_query(params)
    ELSE joined(btree_insert(params, "wts", to_string(now)), TRUE)
           \o <<"&">> \o chars("w_rid") \o <<"=">>
           \o md5(signature_input(
                     joined(btree_insert(params, "wts", to_string(now)), TRUE), key[1]))

\* the pieces of a text between the separators
RECURSIVE split(_, _)
split(text, sep) ==
    IF ~Contains(text, sep) THEN <<text>>
    ELSE <<SubSeq(text, 1, (CHOOSE i \in 1..Len(text) :
                              text[i] = sep /\ \A k \in 1..(i - 1) : text[k] # sep) - 1)>>
           \o split(SubSeq(text, (CHOOSE i \in 1..Len(text) :
                              text[i] = sep /\ \A k \in 1..(i - 1) : text[k] # sep) + 1,
                           Len(text)), sep)

ParamNames == {"avid", "cid", "fnval", "fnver", "fourk", "qn", "wts", "w_rid"}

\* the names of the parameters of a query string, in their order
RECURSIVE names_of(_)
names_of(parts) ==
    IF parts = <<>> THEN <<>>
    ELSE <<CHOOSE w \in ParamNames : chars(w) = split(Head(parts), "=")[1]>>
           \o names_of(Tail(parts))

param_names(query) == names_of(split(query, "&"))

\* the key as wbi_sign reads it
key_chars(key) == IF key = None THEN None ELSE Some(chars(key[1]))

\* fetch_play_url: the manifest, or its error
fetch_play_url(response) ==
    IF ~decodes(response, <<"code", "message", "data">>, <<>>)
    THEN ExtractErr("Network", "fetch_play_url")
    ELSE IF field(response, "code") # "0" THEN ApiError("fetch_play_url", response)
    ELSE IF ~Contains(field(response, "data"), "dash")
    THEN ExtractErr("Parse", "no DASH streams available")
    ELSE <<"Ok", [video |-> IF Contains(field(response, "data"), "video")
                            THEN <<[id |-> 80, height |-> 1080, codecid |-> 7]>>
                            ELSE <<>>,
                  audio |-> None]>>

\* do_extract from the manifest on
after_play_url(r) ==
    IF r[1] # "Ok" THEN r
    ELSE IF build_formats(r[2]) = <<>> THEN ExtractErr("NotAvailable", "do_extract")
    ELSE <<"Ok", [formats |-> build_formats(r[2]), media_type |-> "Video"]>>

BiliCall(op, what, outcome) == Call(op, "bilibili", what, outcome)

\* resolve_video_id from the resolved URL on, and do_extract up to the next
\* await
ExtractVideoId(resolved, trace) ==
    /\ ex_trace' = Append(trace, BiliCall("extract_video_id", resolved,
                                         <<extract_video_id(resolved)[1]>>))
    /\ IF extract_video_id(resolved)[1] = "Ok"
       THEN ex_pc' = "fetch_wbi_keys" /\ UNCHANGED ex_result
       ELSE ReturnExtract(extract_video_id(resolved))

\* extract up to its first await
BiliExtract(url) ==
    /\ ex_pc = "idle"
    /\ ex_input' = Some(url)
    /\ IF Contains(url, "b23.tv")
       THEN /\ ex_trace' = <<BiliCall("extract", url, <<>>)>>
            /\ ex_pc' = "resolve_short_url"
            /\ UNCHANGED ex_result
       ELSE ExtractVideoId(url, <<BiliCall("extract", url, <<>>)>>)
    /\ UNCHANGED <<outside_extract, ex_auth>>

ResolveShortUrl ==
    /\ ex_pc = "resolve_short_url"
    /\ \E response \in HeadResponses :
         IF after_short_url(resolve_short_url(ex_input[1], response)) = "return"
         THEN /\ ex_trace' = Append(ex_trace, BiliCall("request", <<"head">>, response))
              /\ ReturnExtract(resolve_short_url(ex_input[1], response))
         ELSE ExtractVideoId(resolve_short_url(ex_input[1], response)[2],
                             Append(ex_trace, BiliCall("request", <<"head">>, response)))
    /\ UNCHANGED <<outside_extract, ex_input, ex_auth>>

FetchWbiKeys ==
    /\ ex_pc = "fetch_wbi_keys"
    /\ \E response \in NavResponses :
         /\ ex_trace' = Append(ex_trace, BiliCall("request", <<"nav">>, response))
         /\ wbi_key' = IF fetch_wbi_keys(response)[1] = "Ok"
                       THEN fetch_wbi_keys(response)[2]
                       ELSE wbi_key
         /\ IF after_wbi_keys(fetch_wbi_keys(response)) = "return"
            THEN ReturnExtract(fetch_wbi_keys(response))
            ELSE ex_pc' = "fetch_video_info" /\ UNCHANGED ex_result
    /\ UNCHANGED <<download_vars, call, ex_input, ex_auth>>

FetchVideoInfo ==
    /\ ex_pc = "fetch_video_info"
    /\ \E response \in ViewResponses :
         /\ ex_trace' = Append(ex_trace, BiliCall("request", <<"view">>, response))
         /\ IF after_video_info(fetch_video_info(response))[1] = "Ok"
            THEN ex_pc' = "fetch_play_url" /\ UNCHANGED ex_result
            ELSE ReturnExtract(after_video_info(fetch_video_info(response)))
    /\ UNCHANGED <<outside_extract, ex_input, ex_auth>>

FetchPlayUrl ==
    /\ ex_pc = "fetch_play_url"
    /\ \E response \in PlayResponses :
         /\ ex_trace' = Append(ex_trace,
                BiliCall("request",
                         <<"playurl">> \o param_names(
                             wbi_sign(key_chars(wbi_key), play_params(<<"2">>, <<"1">>), 0)),
                         response))
         /\ ReturnExtract(after_play_url(fetch_play_url(response)))
    /\ UNCHANGED <<outside_extract, ex_input, ex_auth>>

NextBili ==
    \/ \E url \in BiliUrls : BiliExtract(url)
    \/ ResolveShortUrl
    \/ FetchWbiKeys
    \/ FetchVideoInfo
    \/ FetchPlayUrl

SpecBili == Init /\ [][NextBili]_vars

\* ------------------------------------------------ the manifest query alone
SigningKeys == {None, Some("mixin_key"), Some("yek_nixim")}

AidValues == {1, 2, 170001}

CidValues == {1, 23, 456}

Timestamps == {0, 9, 1700000000, 1700000001}

\* the query of one manifest request: fetch_play_url up to wbi_sign's return
WbiSign(key, aid, cid, now) ==
    Apply("wbi_sign", <<key_chars(key), play_params(to_string(aid), to_string(cid)), now>>,
          wbi_sign(key_chars(key), play_params(to_string(aid), to_string(cid)), now))

NextSign ==
    \E key \in SigningKeys, aid \in AidValues, cid \in CidValues, now \in Timestamps :
        WbiSign(key, aid, cid, now)

SpecSign == Init /\ [][NextSign]_vars

\* ================================================== DirectExtractor::extract
\* The URL handed to DirectExtractor::extract. Its path is the sequence of
\* its pieces, with "/" and "." as pieces of their own.
DirectPaths ==
    { <<"/", "clip", ".", "mp4">>,
      <<"/", "videos", "/", "clip", ".", "mp4">>,
      <<"/", "clip", ".", "MP4">>,
      <<"/", "song", ".", "mp3">>,
      <<"/", "photo", ".", "tar", ".", "png">>,
      <<"/", "v1", ".", "2", "/", "clip">>,
      <<"/", "page">>,
      <<"/">> }

DirectUrls ==
    {[scheme |-> s, host |-> h, path |-> p, query |-> q] :
        s \in BOOLEAN, h \in {"cdn.example", "X.COM"}, p \in DirectPaths,
        q \in {None, Some("token=1")}}

\* what the HEAD request comes back with: a transport error, or the value of
\* the content-length header if there is one
Probes ==
    { <<"transport error">>, <<"200">>, <<"200", "content-length", "abc">>,
      <<"200", "content-length", "0">>, <<"200", "content-length", "1024">>,
      <<"404", "content-length", "162">> }

\* path.rsplit('.').next(): what follows the last "." of the path, all of the
\* path if it has none
RECURSIVE rsplit_next(_)
rsplit_next(path) ==
    IF path = <<>> \/ path[Len(path)] = "." THEN <<>>
    ELSE rsplit_next(SubSeq(path, 1, Len(path) - 1)) \o <<path[Len(path)]>>

\* str::to_lowercase, piece by piece
RECURSIVE lowercased(_)
lowercased(text) ==
    IF text = <<>> THEN <<>>
    ELSE <<IF Head(text) = "MP4" THEN "mp4" ELSE Head(text)>> \o lowercased(Tail(text))

VIDEO_EXTENSIONS == {"mp4", "mkv", "webm", "avi", "mov", "flv", "m3u8", "ts"}

AUDIO_EXTENSIONS == {"mp3", "m4a", "aac", "flac", "wav", "ogg", "opus"}

direct_media_type(ext) ==
    IF Len(ext) = 1 /\ ext[1] \in VIDEO_EXTENSIONS THEN "Video"
    ELSE IF Len(ext) = 1 /\ ext[1] \in AUDIO_EXTENSIONS THEN "Audio"
    ELSE "Image"

\* str::parse::<u64> of a header value
parses_u64(value) == value \in {"0", "162", "1024"}

\* as probe_filesize, a probe without a size counted as size 0
probe_filesize_OrZero(probe) ==
    IF probe # <<"transport error">> /\ Len(probe) = 3 /\ parses_u64(probe[3])
    THEN Some(probe[3])
    ELSE Some("0")

\* client.head(url).send().await.ok().and_then(content-length as u64)
probe_filesize(probe) ==
    IF probe # <<"transport error">> /\ Len(probe) = 3 /\ parses_u64(probe[3])
    THEN Some(probe[3])
    ELSE None

direct_format(input, probe) ==
    [url |-> input, id |-> "direct", audio_url |-> None, height |-> None,
     ext |-> lowercased(rsplit_next(Url_parse(input)[1].path)),
     filesize |-> probe_filesize(probe), quality |-> None, width |-> None]

direct_extract(input, probe) ==
    IF Url_parse(input) = None THEN ExtractErr("InvalidUrl", "direct")
    ELSE <<"Ok", [formats |-> <<direct_format(input, probe)>>,
                  media_type |->
                      direct_media_type(lowercased(rsplit_next(Url_parse(input)[1].path)))]>>

\* one call of DirectExtractor::extract, with the answer to its probe
DirectExtractorExtract(input, probe) ==
    Apply("direct_extract", <<input, probe>>, direct_extract(input, probe))

NextDirect == \E input \in DirectUrls, probe \in Probes : DirectExtractorExtract(input, probe)

SpecDirect == Init /\ [][NextDirect]_vars

\* ================================================================ claims
Registered == DOMAIN jobs

status_of(j) == jobs[j].status

ProgressEvents(j) == SelectSeq(events[j], LAMBDA e : e.name = "download-progress")

Names(j) == [i \in 1..Len(events[j]) |-> events[j][i].name]

AllowedStep(s, t) ==
    \/ s = t
    \/ s = "Pending" /\ t = "Downloading"
    \/ s = "Downloading" /\ t \in Terminal

\* C1: a job's status goes Pending, Downloading, then at most one of
\* Completed, Failed, Cancelled: a job enters the registry Pending, no step
\* takes it to a terminal status from anything but Downloading, and no step
\* (a cancel_download after the end included) changes a terminal status.
C1_StatusSequence ==
    [][\A j \in JobIds :
         /\ j \in Registered => j \in Registered' /\ AllowedStep(status_of(j), status_of(j)')
         /\ j \notin Registered /\ j \in Registered' => status_of(j)' = "Pending"]_vars

\* a job that ended, with a cancel_download issued only after its end
C1_Witness ==
    \E j \in Registered : status_of(j) \in Terminal /\ cancel_at[j] = Some("done")

\* C2: cancel_download flips the signal only: what get_download_status
\* returns for the job (status, progress, error, output path) is the same
\* before and after the call.
C2_CancelKeepsJob ==
    [][\A j \in JobIds : CancelDownload(j) => get_job(j)' = get_job(j)]_vars

\* the signal was flipped while the job was Downloading, and it still is
C2_Witness ==
    \E j \in Registered :
        /\ cancel_tx[j]
        /\ cancel_at[j] # None /\ cancel_at[j][1] \in {"send", "stream", "write"}
        /\ status_of(j) = "Downloading"

\* C3 (as claimed): a job is Cancelled only if cancel_download was called
\* for it and its transfer returned the cancellation error.
C3_CancelledOnlyByCancel ==
    \A j \in Registered :
        status_of(j) = "Cancelled" =>
            cancel_at[j] # None /\ result[j] = Err(DownloadCancelled)

FileAt(j) == fs[output_path_of(j)]

BeforeStreamEnd == {"spawned", "send", "create", "stream", "write"}

\* C5 (as claimed): a job whose cancel_download came while it was Downloading
\* and before the end of the body stream does not end in a status other than
\* Cancelled.
C5_CancelEndsCancelled ==
    \A j \in Registered :
        /\ cancel_at[j] # None
        /\ cancel_at[j][1] \in BeforeStreamEnd
        /\ pc[j] = "done"
        => status_of(j) = "Cancelled"

\* C5 (amended): once the body stream has yielded an item (a chunk or an
\* error) with the job's signal set, the job reaches Cancelled.
C5_CancelObservedAtNextItem ==
    \A j \in JobIds :
        item_after_cancel[j] # None ~> (j \in Registered /\ status_of(j) = "Cancelled")

\* a job cancelled while a chunk was being written, whose next item was an
\* error, now Cancelled
C5_Witness ==
    \E j \in Registered :
        /\ cancel_at[j] = Some("write")
        /\ item_after_cancel[j] = Some("error")
        /\ yielded[j] = 2
        /\ status_of(j) = "Cancelled"

Monotone(j) ==
    LET P == ProgressEvents(j) IN
    \A i \in 1..(Len(P) - 1) : P[i].downloaded <= P[i + 1].downloaded

LastPercentHundred(j) ==
    LET P == ProgressEvents(j) IN Len(P) > 0 /\ IsPercent(P[Len(P)].percent, 100)

\* C6 (as claimed): a job's progress events have non-decreasing downloaded,
\* and the last progress event of a job that ended has percent 100.
C6_MonotoneAndFinalHundred ==
    \A j \in JobIds :
        /\ Monotone(j)
        /\ pc[j] = "done" /\ ProgressEvents(j) # <<>> => LastPercentHundred(j)

\* C6 (amended): a job's progress events have non-decreasing downloaded, and
\* the last progress event of a job whose transfer succeeded has percent 100.
C6_MonotoneAndFinalHundredOnSuccess ==
    \A j \in JobIds :
        /\ Monotone(j)
        /\ result[j] = Ok => LastPercentHundred(j)

\* a transfer that succeeded with a progress event from the loop before the
\* final one, and more bytes in the final one
C6_Witness ==
    \E j \in JobIds :
        LET P == ProgressEvents(j) IN
        /\ result[j] = Ok
        /\ Len(P) >= 2
        /\ P[1].downloaded < P[Len(P)].downloaded

CompleteAt(j) == {i \in 1..Len(events[j]) : events[j][i].name = "download-complete"}

\* C7: download-complete is emitted at most once, only by a transfer that
\* succeeded, with the file holding every chunk and flushed; the event before
\* it is a download-progress with percent 100, no download-progress follows
\* it, and it carries the job's id and output path; a transfer that failed
\* (a write or the flush included) emits none.
C7_CompletionOrder ==
    \A j \in JobIds :
        LET evs == events[j] IN
        /\ Cardinality(CompleteAt(j)) <= 1
        /\ result[j] = Ok => CompleteAt(j) # {}
        /\ IsErr(result[j]) => CompleteAt(j) = {}
        /\ \A i \in CompleteAt(j) :
              /\ result[j] = Ok
              /\ FileAt(j) = Some([by |-> j, len |-> downloaded[j], flushed |-> TRUE])
              /\ i > 1
              /\ evs[i - 1].name = "download-progress"
              /\ IsPercent(evs[i - 1].percent, 100)
              /\ \A k \in (i + 1)..Len(evs) : evs[k].name # "download-progress"
              /\ evs[i].job_id = j
              /\ evs[i].output_path = output_path_of(j)

\* a completed job of two chunks with its completion event
C7_Witness ==
    \E j \in Registered :
        /\ CompleteAt(j) # {}
        /\ yielded[j] = 2
        /\ status_of(j) = "Completed"

Throttled(e) == e.gap = None \/ e.gap[1] >= ThrottleMs

\* C8 (as claimed): every progress event of a job, the final one included,
\* comes at least 100 ms after the job's previous progress event.
C8_AllProgressThrottled ==
    \A j \in JobIds :
        \A i \in 1..Len(ProgressEvents(j)) : Throttled(ProgressEvents(j)[i])

\* C8 (amended): every progress event emitted by the transfer loop comes at
\* least 100 ms after the job's previous progress event.
C8_LoopProgressThrottled ==
    \A j \in JobIds :
        \A i \in 1..Len(ProgressEvents(j)) :
            ProgressEvents(j)[i].at = "loop" => Throttled(ProgressEvents(j)[i])

\* two progress events from the loop of one job
C8_Witness ==
    \E j \in JobIds :
        LET P == ProgressEvents(j) IN
        Len(P) >= 2 /\ P[1].at = "loop" /\ P[2].at = "loop"

\* C9: with no content length reported, every progress event has no total,
\* those emitted by the loop have percent 0, and only the one emitted on
\* completion has percent 100.
C9_UnknownTotalPercent ==
    \A j \in JobIds :
        total[j] = None =>
            \A i \in 1..Len(ProgressEvents(j)) :
                LET e == ProgressEvents(j)[i] IN
                /\ e.total = None
                /\ e.at = "loop" => IsPercent(e.percent, 0)
                /\ e.at = "complete" <=> IsPercent(e.percent, 100)

\* a transfer without content length that emitted from the loop and on
\* completion
C9_Witness ==
    \E j \in JobIds :
        LET P == ProgressEvents(j) IN
        /\ http_status[j] = Some(200)
        /\ total[j] = None
        /\ Len(P) >= 2
        /\ P[1].at = "loop"
        /\ P[Len(P)].at = "complete"

NonSuccess(code) == code < 200 \/ code > 299

Untouched(j) == FileAt(j) = None \/ FileAt(j)[1].by # j

\* C10: after a response that is not 2xx the transfer has returned an error
\* naming the status code, the file at the output path is not the job's, and
\* the job has no progress or completion event; once the task has ended the
\* job is Failed and its one event is download-error.
C10_NonSuccessFailsFast ==
    \A j \in JobIds :
        http_status[j] # None /\ NonSuccess(http_status[j][1]) =>
            /\ pc[j] \in {"finish", "done"}
            /\ IsErr(result[j])
            /\ Contains(result[j][2], ToString(http_status[j][1]))
            /\ Untouched(j)
            /\ \A i \in 1..Len(events[j]) : events[j][i].name = "download-error"
            /\ pc[j] = "done" =>
                  /\ status_of(j) = "Failed"
                  /\ Names(j) = <<"download-error">>
                  /\ jobs[j].error = Some(result[j][2])

\* a job that ended on a 404, cancelled before the response, with a file
\* already at the output path
C10_Witness ==
    \E j \in Registered :
        /\ http_status[j] = Some(404)
        /\ pc[j] = "done"
        /\ cancel_at[j] = Some("send")
        /\ FileAt(j) = Some(OldFile)

\* C13: get_download_status returns the job, in whatever state it is, for
\* every id start_download has registered, from then on (no job is ever
\* taken out of the registry, whatever state it reaches); for an id that was
\* never handed out it returns Ok(None), not an error; and the query itself
\* changes no job.
C13_StatusQuery ==
    [][\A j \in JobIds :
         /\ j \in Registered =>
               /\ j \in DOMAIN jobs'
               /\ get_download_status(j)' = <<"Ok", Some(jobs'[j])>>
         /\ pc[j] = "absent" => get_download_status(j) = <<"Ok", None>>
         /\ pc'[j] = "absent" => get_download_status(j)' = <<"Ok", None>>
         /\ GetDownloadStatus(j) => jobs' = jobs]_vars

C13_Witness ==
    \E j, k \in JobIds :
        /\ pc[j] = "done"
        /\ status_of(j) \in Terminal
        /\ get_download_status(j) = <<"Ok", Some(jobs[j])>>
        /\ pc[k] = "absent"
        /\ get_download_status(k) = <<"Ok", None>>

Returned == ex_pc = "returned"

Requests == SelectSeq(ex_trace, LAMBDA c : c.op = "request")

Called(op, who) ==
    \E i \in 1..Len(ex_trace) : ex_trace[i].op = op /\ ex_trace[i].who = who

Requested(to) == \E i \in 1..Len(Requests) : Requests[i].what = to

\* the input is an absolute URL, and what Url::parse makes of it
WellFormed == ex_input # None /\ ex_input[1].scheme
InputUrl == Url_parse(ex_input[1])[1]

InvalidUrl == ExtractErr("InvalidUrl", "dispatcher")
NoExtractor == ExtractErr("NoExtractor", "dispatcher")

\* the extractors of the two platforms
Platforms == {"twitter", "bilibili"}

\* C14: a URL that both the pattern of a platform extractor and the
\* direct-extension pattern accept is handed to that platform's extractor:
\* the direct-link extractor is never asked to extract it and issues no
\* request for it.
C14_PlatformBeforeDirect ==
    \A platform \in Platforms :
        (WellFormed /\ matches(platform, InputUrl) /\ direct_matches(InputUrl)) =>
            /\ Called("extract", platform)
            /\ ~Called("extract", "direct")
            /\ \A i \in 1..Len(Requests) : Requests[i].who = platform

\* what does hold: the Twitter pattern is asked before the direct-extension
\* pattern, so a status URL that ends in a media extension goes to the
\* Twitter extractor
TwitterBeforeDirect ==
    (WellFormed /\ twitter_matches(InputUrl) /\ direct_matches(InputUrl)) =>
        /\ Called("extract", "twitter")
        /\ ~Called("extract", "direct")
        /\ \A i \in 1..Len(Requests) : Requests[i].who = "twitter"

\* C15: a URL that the Bilibili pattern accepts (a bilibili.com/video/ URL
\* or a b23.tv short link) and no other pattern accepts is handed to the
\* Bilibili extractor, and extract_media does not return NoExtractor for it.
C15_BilibiliDelegated ==
    (/\ Returned
     /\ WellFormed
     /\ bilibili_matches(InputUrl)
     /\ ~twitter_matches(InputUrl)
     /\ ~direct_matches(InputUrl)) =>
        /\ Called("extract", "bilibili")
        /\ ex_result # NoExtractor

\* C16: extract_media returns InvalidUrl when the input does not parse as a
\* URL (and only then), and NoExtractor exactly when the input parses and
\* none of the extractors it asks accepts the URL; in both cases no
\* extractor's extract is called and nothing is requested.
C16_InvalidUrlAndNoExtractor ==
    Returned =>
        /\ ex_result = InvalidUrl <=> ~WellFormed
        /\ ex_result = NoExtractor <=>
              /\ WellFormed
              /\ \A i \in 1..Len(extractors) : ~matches(extractors[i], InputUrl)
        /\ ex_result \in {InvalidUrl, NoExtractor} =>
              \A i \in 1..Len(ex_trace) : ex_trace[i].op \notin {"extract", "request"}

C16_Witness ==
    /\ Returned
    /\ ~WellFormed
    /\ ex_result = InvalidUrl
    /\ ex_trace = <<Call("parse", "dispatcher", "", "fail")>>

\* C17: nothing is requested before an extractor's matches has returned
\* true: every extract call and every request is made by the first extractor
\* whose matches returned true, after all the matches calls; an input that is
\* malformed or that no extractor accepts causes no request at all.
C17_NoRequestBeforeMatch ==
    /\ \A i \in 1..Len(ex_trace) :
         ex_trace[i].op \in {"extract", "request"} =>
             /\ \E k \in 1..(i - 1) :
                  /\ ex_trace[k] = Call("matches", ex_trace[i].who, "", "true")
                  /\ \A m \in 1..(k - 1) :
                       ex_trace[m].op = "matches" => ex_trace[m].outcome = "false"
             /\ \A k \in (i + 1)..Len(ex_trace) : ex_trace[k].op # "matches"
    /\ (ex_input # None /\ ~WellFormed) => Requests = <<>>
    /\ (WellFormed /\ \A i \in 1..Len(extractors) : ~matches(extractors[i], InputUrl))
          => Requests = <<>>

C17_Witness ==
    /\ Returned
    /\ WellFormed
    /\ ~twitter_matches(InputUrl)
    /\ Called("matches", "twitter")
    /\ Requests = <<Call("request", "direct", "head", "ok")>>

\* C18: with an auth_token the Twitter extractor takes the authenticated
\* GraphQL path and no other: neither the syndication endpoint, nor the
\* guest-token endpoint, nor the guest GraphQL request is ever made, and what
\* the path returns (the error of the CSRF step or the outcome of the
\* authenticated GraphQL request) is what the extraction returns.  Without an
\* auth_token no request of the authenticated path is made.
C18_AuthPathExclusive ==
    /\ ex_auth # None =>
         /\ \A i \in 1..Len(Requests) : Requests[i].what \in {"csrf", "graphql_auth"}
         /\ (Returned /\ Requests # <<>>) =>
               LET last == Requests[Len(Requests)] IN
               ex_result = IF last.what = "csrf"
                           THEN fetch_csrf_token(last.outcome)
                           ELSE graphql_result("graphql_auth", last.outcome)
    /\ ex_auth = None => ~Requested("csrf") /\ ~Requested("graphql_auth")

C18_Witness ==
    /\ Returned
    /\ ex_auth # None
    /\ Requests = <<Call("request", "twitter", "csrf", "ok"),
                    Call("request", "twitter", "graphql_auth", "protected")>>
    /\ ex_result = ExtractErr("AuthRequired", "graphql_auth")

\* C19: without an auth_token the syndication endpoint is asked first.  If it
\* succeeds its MediaInfo is returned and nothing else is requested.  If it
\* fails in any way (transport error, non-2xx status, undecodable body, no
\* media) the guest-token endpoint is asked next, and after a guest token the
\* GraphQL endpoint; when both of these succeed the extraction returns the
\* MediaInfo of the GraphQL response.
C19_FallbackChain ==
    /\ \A i \in 1..Len(Requests) :
         /\ Requests[i].what = "syndication" => i = 1
         /\ Requests[i].what = "guest_token" =>
               /\ i = 2
               /\ Requests[1].what = "syndication" /\ Requests[1].outcome # "ok"
         /\ Requests[i].what = "graphql" =>
               /\ i = 3
               /\ Requests[2].what = "guest_token" /\ Requests[2].outcome = "ok"
    /\ (Returned /\ Requested("syndication")) =>
         IF Requests[1].outcome = "ok"
         THEN ex_result = MediaInfo("syndication") /\ Len(Requests) = 1
         ELSE /\ Len(Requests) >= 2
              /\ Requests[2].what = "guest_token"
              /\ Requests[2].outcome = "ok" =>
                    /\ Len(Requests) = 3
                    /\ Requests[3].what = "graphql"
                    /\ Requests[3].outcome = "ok" => ex_result = MediaInfo("graphql")

C19_Witness ==
    /\ Returned
    /\ Requests = <<Call("request", "twitter", "syndication", "no_media"),
                    Call("request", "twitter", "guest_token", "ok"),
                    Call("request", "twitter", "graphql", "ok")>>
    /\ ex_result = MediaInfo("graphql")

\* C20: when the unauthenticated chain fails, the error returned is the one
\* of the last request made, which is the guest-token request or the guest
\* GraphQL request and never the syndication request; and a failed
\* guest-token request ends the extraction with its error, without a GraphQL
\* request.
C20_TerminalErrorSurfaced ==
    /\ (Returned /\ Requested("syndication") /\ ex_result[1] = "Err") =>
         /\ ex_result[2].from \in {"guest_token", "graphql"}
         /\ ex_result[2].from = Requests[Len(Requests)].what
    /\ \A i \in 1..Len(Requests) :
         (Requests[i].what = "guest_token" /\ Requests[i].outcome # "ok") =>
             /\ i = Len(Requests)
             /\ Returned
             /\ ex_result = fetch_guest_token(Requests[i].outcome)

C20_Witness ==
    /\ Returned
    /\ Requests = <<Call("request", "twitter", "syndication", "transport"),
                    Call("request", "twitter", "guest_token", "status")>>
    /\ ex_result = ExtractErr("Parse", "guest_token")

\* ------------------------------------------- claims on the Twitter parsers
Parsed == call.fn \in {"parse_graphql_response", "parse_syndication_response"}

ParsedOk == Parsed /\ call.result[1] = "Ok"

\* the result object of the GraphQL body that was parsed, if it has one
GraphqlResult ==
    IF call.fn = "parse_graphql_response" /\ call.arg.decodes
    THEN call.arg.result
    ELSE None

HasMedia(res) ==
    /\ res.legacy # None
    /\ res.legacy[1].extended_entities \notin {None, Some(<<>>)}

\* C21: a GraphQL result with discriminator TweetTombstone gives
\* NotAvailable; TweetUnavailable gives AuthRequired when the reason is
\* NsfwLoggedOut or Protected and NotAvailable for any other reason or none;
\* no MediaInfo is returned for them, whether the result carries media or not.
C21_ResultClassification ==
    GraphqlResult # None =>
        LET res == GraphqlResult[1] IN
        /\ res.typename = "TweetTombstone" =>
              call.result = ParseErr("NotAvailable")
        /\ res.typename = "TweetUnavailable" =>
              call.result = IF res.reason \in {Some("NsfwLoggedOut"), Some("Protected")}
                            THEN ParseErr("AuthRequired")
                            ELSE ParseErr("NotAvailable")

C21_Witness ==
    /\ GraphqlResult # None
    /\ GraphqlResult[1].typename = "TweetUnavailable"
    /\ GraphqlResult[1].reason = Some("Protected")
    /\ HasMedia(GraphqlResult[1])
    /\ call.result = ParseErr("AuthRequired")

\* place of a format's source in the upstream payload
Upstream(a, b) == a.url[1] < b.url[1] \/ (a.url[1] = b.url[1] /\ a.url[2] < b.url[2])

\* C22: in every MediaInfo of either parser the formats of known height
\* come in non-increasing height, every format of unknown height comes after
\* every format of known height, and formats of the same height (or both of
\* unknown height) keep the order they have upstream.
C22_SortedByHeight ==
    ParsedOk =>
        LET formats == call.result[2].formats IN
        \A i, j \in 1..Len(formats) :
            i < j =>
                /\ formats[i].height = None => formats[j].height = None
                /\ (formats[i].height # None /\ formats[j].height # None) =>
                      formats[i].height[1] >= formats[j].height[1]
                /\ formats[i].height = formats[j].height =>
                      Upstream(formats[i], formats[j])

\* what does hold: the formats are in non-increasing order of the height
\* with 0 for an unknown one, and formats that agree in it keep their
\* upstream order
SortedByHeightKey ==
    ParsedOk =>
        LET formats == call.result[2].formats IN
        \A i, j \in 1..Len(formats) :
            i < j =>
                /\ height_key(formats[i]) >= height_key(formats[j])
                /\ height_key(formats[i]) = height_key(formats[j]) =>
                      Upstream(formats[i], formats[j])

\* the media list the parsed payload carries
ArgMedia ==
    IF call.fn = "parse_graphql_response"
    THEN LET res == call.arg.result[1]
         IN (IF res.legacy # None THEN res.legacy ELSE res.tweet)[1].extended_entities[1]
    ELSE IF call.arg.media_details # None THEN call.arg.media_details[1] ELSE <<>>

\* content type of the variant a format was made from
SourceType(f) ==
    IF f.url[1] = 0 THEN call.arg.video[1][f.url[2]].type
    ELSE ArgMedia[f.url[1]].video_info[1][f.url[2]].content_type

\* C23: a MediaInfo of either parser has at least one format; its media type
\* is Video exactly when one of its formats is an mp4 format and Image
\* otherwise; and every mp4 format was made from a variant of content type
\* video/mp4.
C23_MediaType ==
    ParsedOk =>
        LET info == call.result[2] IN
        /\ info.formats # <<>>
        /\ info.media_type = "Video" <=>
              \E i \in 1..Len(info.formats) : info.formats[i].ext = "mp4"
        /\ info.media_type \in {"Video", "Image"}
        /\ \A i \in 1..Len(info.formats) :
              info.formats[i].ext = "mp4" =>
                  SourceType(info.formats[i]) = "video/mp4"

\* a photo taller than the video beside it
C23_Witness ==
    /\ ParsedOk
    /\ call.result[2].media_type = "Video"
    /\ Len(call.result[2].formats) = 2
    /\ call.result[2].formats[1].ext = "jpg"
    /\ call.result[2].formats[2].ext = "mp4"

\* ------------------------------------------------------------ the id codec
\* 1 <= n < 2^51
InRange(n) == n # Zero /\ n[4] < 8

\* C24: for every numeric id n with 1 <= n < 2^51, av_to_bv(n) succeeds and
\* bv_to_av of what it returns is n.
C24_NumericRoundTrip ==
    (call.fn = "av_to_bv" /\ InRange(call.arg)) =>
        /\ call.result[1] = "Ok"
        /\ bv_to_av(call.result[2]) = <<"Ok", call.arg>>

\* the largest id, 2^51 - 1
C24_Witness ==
    /\ call.fn = "av_to_bv"
    /\ call.arg = MASK_CODE
    /\ call.result[1] = "Ok"
    /\ bv_to_av(call.result[2]) = <<"Ok", MASK_CODE>>

\* BV1 and nine symbols of the alphabet
WellFormedBvid(b) ==
    /\ Len(b) = 3 + BV_LEN
    /\ SubSeq(b, 1, 3) = <<"B", "V", "1">>
    /\ \A i \in 4..Len(b) : \E k \in 1..Len(ALPHABET) : ALPHABET[k] = b[i]

\* C25: for every well-formed encoded id b, bv_to_av(b) succeeds and
\* av_to_bv of what it returns is b.
C25_EncodedRoundTrip ==
    (call.fn = "bv_to_av" /\ WellFormedBvid(call.arg)) =>
        /\ call.result[1] = "Ok"
        /\ av_to_bv(call.result[2]) = <<"Ok", call.arg>>

\* the number the nine symbols of a well-formed b spell in base 58
SpelledValue(b) == base58_value(swap_positions(SubSeq(b, 4, Len(b))))

\* 2^51 <= v < 2^52, and v is not the code of 0
InEncodedRange(v) ==
    /\ v[4] \in 8..15
    /\ <<v[1], v[2], v[3], v[4] - 8>> # XOR_CODE

\* C25 as it holds: for every well-formed encoded id b whose nine symbols
\* spell a number v with 2^51 <= v < 2^52 and v mod 2^51 other than XOR_CODE,
\* bv_to_av(b) succeeds and av_to_bv of what it returns is b.
C25_EncodedRoundTripInRange ==
    (call.fn = "bv_to_av" /\ WellFormedBvid(call.arg)
        /\ InEncodedRange(SpelledValue(call.arg))) =>
        /\ call.result[1] = "Ok"
        /\ av_to_bv(call.result[2]) = <<"Ok", call.arg>>

\* BV1xx411c7mD is the id 2
C25_Witness ==
    /\ call.fn = "bv_to_av"
    /\ call.arg = Example
    /\ InEncodedRange(SpelledValue(call.arg))
    /\ call.result = <<"Ok", <<2, 0, 0, 0>>>>
    /\ av_to_bv(call.result[2]) = <<"Ok", Example>>

\* the characters of an encoded id behind its BV1 or BV prefix
Core(b) ==
    IF starts_with(to_uppercase(b), <<"B", "V", "1">>) THEN SubSeq(b, 4, Len(b))
    ELSE IF starts_with(to_uppercase(b), <<"B", "V">>) THEN SubSeq(b, 3, Len(b))
    ELSE b

\* C26: av_to_bv returns an error for every n < 1 and every n >= 2^51 and
\* succeeds for every other n; bv_to_av returns an error, and no numeric
\* id, for every string whose core is not exactly 9 characters long.
C26_RangeAndLength ==
    /\ call.fn = "av_to_bv" => (call.result[1] = "Err" <=> ~InRange(call.arg))
    /\ (call.fn = "bv_to_av" /\ Len(Core(call.arg)) # BV_LEN) =>
          call.result[1] = "Err"

\* what does hold of the two: the range of av_to_bv, and the length of the
\* core counted in bytes
RangeAndByteLength ==
    /\ call.fn = "av_to_bv" => (call.result[1] = "Err" <=> ~InRange(call.arg))
    /\ call.fn = "bv_to_av" =>
          (call.result[1] = "Err" <=> Len(bytes(Core(call.arg))) # BV_LEN)

\* ------------------------------------------------------------ build_formats
\* the quality id a format's id begins with
RECURSIVE number_before(_, _)
number_before(text, n) ==
    IF text = <<>> \/ Head(text) = "_" THEN n
    ELSE number_before(Tail(text), 10 * n + byte_rank(Head(text)) - 1)

QualityOf(f) == number_before(f.id, 0)

Built == call.fn = "build_formats"

\* C27: the formats build_formats returns are in descending height, and of
\* two formats of the same height the one of the stream with the larger
\* quality id comes first.
C27_SortedByHeightThenQuality ==
    Built =>
        \A i, j \in 1..Len(call.result) :
            i < j =>
                /\ call.result[i].height[1] >= call.result[j].height[1]
                /\ call.result[i].height = call.result[j].height =>
                      QualityOf(call.result[i]) >= QualityOf(call.result[j])

\* what does hold: descending height, and descending id as a string among
\* formats of the same height
SortedByHeightThenIdString ==
    Built =>
        \A i, j \in 1..Len(call.result) :
            i < j =>
                /\ call.result[i].height[1] >= call.result[j].height[1]
                /\ call.result[i].height = call.result[j].height =>
                      str_cmp(call.result[i].id, call.result[j].id) # "Less"

\* -------------------------------------------------------- BilibiliExtractor
\* the response to the request of that name, if the request was made
Response(name) ==
    IF \E k \in 1..Len(Requests) : Requests[k].what[1] = name
    THEN Some(Requests[CHOOSE k \in 1..Len(Requests) : Requests[k].what[1] = name].outcome)
    ELSE None

ResolutionError == ExtractErr("Network", "resolve_short_url")

\* the URL that the video id was looked for in
IdSoughtIn ==
    IF Called("extract_video_id", "bilibili")
    THEN Some(ex_trace[CHOOSE k \in 1..Len(ex_trace) :
                         ex_trace[k].op = "extract_video_id"].what)
    ELSE None

\* the redirect-only request failed at transport level
HeadFailed == Response("head") = Some(<<"transport error">>)

\* the redirect-only request was answered without a redirect or a Location
HeadWithoutRedirect ==
    /\ Response("head") # None
    /\ ~HeadFailed
    /\ (Response("head")[1][1] # "302" \/ Len(Response("head")[1]) = 1)

\* C28: when the redirect-only request for a short link fails at transport
\* level, or is answered without a redirect or a Location, the extraction
\* goes on to look for the video id in the short link as it is, and does not
\* return the error of the resolution.
C28_ShortUrlFailureNonFatal ==
    (HeadFailed \/ HeadWithoutRedirect) =>
        /\ IdSoughtIn = ex_input
        /\ ex_result # ResolutionError

\* what does hold: the same for an answer without redirect or Location
ShortUrlWithoutRedirectNonFatal ==
    HeadWithoutRedirect =>
        /\ IdSoughtIn = ex_input
        /\ ex_result # ResolutionError

\* the signing-key fetch failed
KeyFetchFailed ==
    Response("nav") # None /\ fetch_wbi_keys(Response("nav")[1])[1] # "Ok"

\* what the metadata fetch and the manifest fetch that were made, and the
\* steps after them, give: the result of the extraction, or none yet
LaterResult ==
    IF Response("view") = None THEN None
    ELSE IF after_video_info(fetch_video_info(Response("view")[1]))[1] # "Ok"
    THEN after_video_info(fetch_video_info(Response("view")[1]))
    ELSE IF Response("playurl") = None THEN None
    ELSE after_play_url(fetch_play_url(Response("playurl")[1]))

Unsigned(query) == ~Contains(query, "wts") /\ ~Contains(query, "w_rid")

\* C29: after a failed signing-key fetch the extraction stands at the
\* metadata fetch or has made it, stands at the manifest fetch or has made
\* it unless the metadata fetch ended the extraction, the manifest request
\* has no wts and no w_rid parameter, and the result is the one that the
\* metadata fetch and the manifest fetch give.
C29_SigningKeyFailureNonFatal ==
    KeyFetchFailed =>
        /\ ex_pc = "fetch_video_info" \/ Response("view") # None
        /\ Returned \/ ex_pc \in {"fetch_video_info", "fetch_play_url"}
        /\ Returned => (Response("playurl") # None
                         \/ after_video_info(fetch_video_info(Response("view")[1]))[1] # "Ok")
        /\ \A k \in 1..Len(Requests) :
              Requests[k].what[1] = "playurl" => Unsigned(Requests[k].what)
        /\ ex_result = LaterResult

\* without a key, an unsigned manifest request that is answered with streams
C29_Witness ==
    /\ KeyFetchFailed
    /\ Response("playurl") # None
    /\ Returned
    /\ ex_result[1] = "Ok"

\* with a key the manifest request is signed
SignedWithKey ==
    (Response("nav") # None /\ ~KeyFetchFailed) =>
        \A k \in 1..Len(Requests) :
            Requests[k].what[1] = "playurl" =>
                Contains(Requests[k].what, "wts") /\ Contains(Requests[k].what, "w_rid")

\* the steps taken, by name
Steps ==
    [k \in 1..Len(ex_trace) |->
        IF ex_trace[k].op = "request" THEN ex_trace[k].what[1] ELSE ex_trace[k].op]

StepOrder == <<"extract", "head", "extract_video_id", "nav", "view", "playurl">>

StepRank(name) == CHOOSE k \in 1..Len(StepOrder) : StepOrder[k] = name

\* id resolution, signing-key fetch, metadata fetch, manifest fetch, each at
\* most once, none before the one it follows was taken
InOrder ==
    /\ \A k, l \in 1..Len(Steps) : k < l => StepRank(Steps[k]) < StepRank(Steps[l])
    /\ \A k \in 1..Len(Steps) :
          StepRank(Steps[k]) > 3 => (k > 1 /\ StepRank(Steps[k - 1]) = StepRank(Steps[k]) - 1)

NonZeroCode(response) == has_field(response, "code") /\ field(response, "code") # "0"

NoPages(response) ==
    /\ has_field(response, "code") /\ field(response, "code") = "0"
    /\ has_field(response, "data") /\ ~Contains(field(response, "data"), "page")

\* C30: the steps are taken in the order id resolution, signing-key fetch,
\* metadata fetch, manifest fetch; a metadata payload with a non-zero code
\* gives a Parse error with the platform's message, and one without pages
\* gives a Parse error, and in both cases no manifest is requested.
C30_StepsInOrder ==
    /\ ex_trace # <<>> => InOrder
    /\ (Response("view") # None /\ NonZeroCode(Response("view")[1])) =>
          /\ ex_result = ApiError("fetch_video_info", Response("view")[1])
          /\ Response("playurl") = None
    /\ (Response("view") # None /\ NoPages(Response("view")[1])) =>
          /\ ex_result = ExtractErr("Parse", "no video pages found")
          /\ Response("playurl") = None

\* what does hold: the same, the non-zero code counting only in a payload
\* that has all the fields of a successful one
StepsInOrderWhenDecodable ==
    /\ ex_trace # <<>> => InOrder
    /\ (Response("view") # None /\ NonZeroCode(Response("view")[1])) =>
          /\ ex_result = IF has_field(Response("view")[1], "data")
                          THEN ApiError("fetch_video_info", Response("view")[1])
                          ELSE ExtractErr("Network", "fetch_video_info")
          /\ Response("playurl") = None
    /\ (Response("view") # None /\ NoPages(Response("view")[1])) =>
          /\ ex_result = ExtractErr("Parse", "no video pages found")
          /\ Response("playurl") = None

\* ---------------------------------------------------------- DirectExtractor
Probed == call.fn = "direct_extract"

ProbeSizeless ==
    \/ call.arg[2] = <<"transport error">>
    \/ Len(call.arg[2]) < 3
    \/ call.arg[2][3] \notin {"0", "162", "1024"}

\* the path ends in clip.mp4 and the URL has no query string
EndsInClipMp4 ==
    /\ call.arg[1].query = None
    /\ Len(call.arg[1].path) >= 3
    /\ SubSeq(call.arg[1].path, Len(call.arg[1].path) - 2, Len(call.arg[1].path))
          = <<"clip", ".", "mp4">>

\* C31: DirectExtractor::extract returns, for a URL that parses, a MediaInfo
\* with exactly one Format; the Format has no quality; its filesize is
\* unknown when the probe failed or gave no size; and its ext is "mp4" when
\* the URL ends in clip.mp4 and has no query string.
C31_DirectOneFormat ==
    (Probed /\ call.arg[1].scheme) =>
        /\ call.result[1] = "Ok"
        /\ Len(call.result[2].formats) = 1
        /\ call.result[2].formats[1].quality = None
        /\ ProbeSizeless => call.result[2].formats[1].filesize = None
        /\ EndsInClipMp4 => call.result[2].formats[1].ext = <<"mp4">>

\* the probe fails for .../clip.mp4
C31_Witness ==
    /\ Probed
    /\ call.arg[1].scheme
    /\ EndsInClipMp4
    /\ call.arg[2] = <<"transport error">>
    /\ call.result[1] = "Ok"
    /\ call.result[2].formats[1].filesize = None
    /\ call.result[2].formats[1].ext = <<"mp4">>

\* ------------------------------------------------- the loop of download()
\* the job's file grew in this step
Wrote(j) ==
    /\ FileAt(j) # None
    /\ FileAt(j)' # None
    /\ FileAt(j)'[1].by = j
    /\ FileAt(j)'[1].len > FileAt(j)[1].len

\* C32: the signal is read before each item of the stream is processed.  An
\* item the stream yields with the signal set is not written and not
\* counted: the transfer returns.  A write with the signal set is the write
\* of the one chunk whose check had passed when cancel_download came, so at
\* most one chunk is written after the signal was set.
C32_CheckedBeforeEachChunk ==
    [][\A j \in Registered :
         /\ cancel_tx[j] /\ yielded'[j] > yielded[j] =>
               /\ pc'[j] = "finish"
               /\ downloaded'[j] = downloaded[j]
               /\ ~Wrote(j)
         /\ cancel_tx[j] /\ Wrote(j) =>
               /\ cancel_at[j] = Some("write")
               /\ pc[j] = "write" /\ pc'[j] = "stream"
               /\ FileAt(j)'[1].len = downloaded[j]]_vars

\* cancel_download came while the first chunk was being written; the chunk
\* was written, and the second item was dropped
C32_Witness ==
    \E j \in Registered :
        /\ cancel_at[j] = Some("write")
        /\ downloaded[j] = 1
        /\ yielded[j] = 2
        /\ result[j] = Err(DownloadCancelled)
        /\ pc[j] = "finish"

\* --------------------------------------------------------- terminal events
ErrorAt(j) == {i \in 1..Len(events[j]) : events[j][i].name = "download-error"}

\* what get_download_status returns for the job is a job of this status
StatusReturned(j, statuses) ==
    /\ get_download_status(j)[2] # None
    /\ get_download_status(j)[2][1].status \in statuses

\* C33 (as claimed): once a job's download-complete has been emitted,
\* get_download_status returns the job Completed; once its download-error has
\* been emitted, it returns the job Failed or Cancelled.
C33_StatusFollowsTerminalEvent ==
    \A j \in JobIds :
        /\ CompleteAt(j) # {} => StatusReturned(j, {"Completed"})
        /\ ErrorAt(j) # {} => StatusReturned(j, {"Failed", "Cancelled"})

\* the half of C33 that holds: the error arm updates the job before it
\* emits download-error
StatusFollowsErrorEvent ==
    \A j \in JobIds : ErrorAt(j) # {} => StatusReturned(j, {"Failed", "Cancelled"})

TerminalAt(j) == CompleteAt(j) \cup ErrorAt(j)

\* C34: a single-stream job emits one terminal event.  At no time has it
\* emitted more than one, and no download-progress comes after it; once the
\* job has ended it has emitted exactly one: download-complete if and only
\* if it ended Completed, download-error if and only if it ended Failed or
\* Cancelled.
C34_OneTerminalEvent ==
    \A j \in JobIds :
        /\ Cardinality(TerminalAt(j)) <= 1
        /\ \A i \in TerminalAt(j) : i = Len(events[j])
        /\ pc[j] = "done" =>
              /\ Cardinality(TerminalAt(j)) = 1
              /\ status_of(j) \in Terminal
              /\ CompleteAt(j) # {} <=> status_of(j) = "Completed"
              /\ ErrorAt(j) # {} <=> status_of(j) \in {"Failed", "Cancelled"}

\* a job that ended Completed after progress events from the loop, and
\* whose only terminal event is its last event
C34_Witness ==
    \E j \in Registered :
        /\ pc[j] = "done"
        /\ status_of(j) = "Completed"
        /\ Len(ProgressEvents(j)) >= 2
        /\ CompleteAt(j) = {Len(events[j])}
        /\ ErrorAt(j) = {}

\* ------------------------------------------------ two jobs, one output path
\* the job's transfer returns its cancellation error in this step
Unwinds(k) == result[k] = None /\ result'[k] = Err(DownloadCancelled)

\* C35 (as claimed): a cancelled transfer removes its own output only.  The
\* step in which one job's transfer unwinds leaves every file alone that
\* another job has created, the two jobs having the same output path
\* included, so a job that is Completed has a file at its output path.
C35_CancelRemovesOwnOutputOnly ==
    /\ [][\A k \in Registered :
            Unwinds(k) =>
                \A p \in Paths :
                    fs[p] # None /\ fs[p][1].by # k => fs'[p] = fs[p]]_vars
    /\ [](\A j \in Registered : status_of(j) = "Completed" => FileAt(j) # None)

\* ------------------------------------------------ cancellation and errors
StreamError == Err(<<"Stream error: ">> \o BodyErrorText)
WriteError == Err(<<"Write error: ">> \o IoErrorText)

StreamErrorLeavesPartialFile ==
    \E j \in Registered :
        /\ cancel_at[j] = None
        /\ result[j] = StreamError
        /\ status_of(j) = "Failed"
        /\ FileAt(j) # None /\ FileAt(j)[1].len > 0

\* ----------------------------------------------------- progress and total
\* the fraction is a number from 0 to 100
WithinHundred(p) == p[2] # 0 /\ 0 <= p[1] /\ p[1] <= 100 * p[2]

Signing == call.fn = "wbi_sign"

QueryParts == split(call.result, "&")

PartKey(i) == split(QueryParts[i], "=")[1]

PartValue(i) == split(QueryParts[i], "=")[2]

Ascending(n) ==
    \A i \in 1..(n - 1) : str_cmp(PartKey(i), PartKey(i + 1)) = "Less"

FixedKeys == {chars(w) : w \in {"avid", "cid", "fnval", "fnver", "fourk", "qn"}}

\* what comes before "&w_rid=..." in the query
BeforeDigest ==
    SubSeq(call.result, 1, Len(call.result) - Len(QueryParts[Len(QueryParts)]) - 1)

\* C38: the manifest query has wts and w_rid exactly if there is a signing
\* key.  Without a key its parameters are the six fixed ones in ascending
\* order of their keys.  With a key they are the six and wts (the time of
\* the call) in ascending order, then w_rid as the last parameter, whose
\* value is the digest of the query string before "&w_rid=" followed by the
\* key.
C38_SignedQuery ==
    Signing =>
        IF call.arg[1] = None
        THEN /\ Len(QueryParts) = 6
             /\ {PartKey(i) : i \in 1..6} = FixedKeys
             /\ Ascending(6)
        ELSE /\ Len(QueryParts) = 8
             /\ {PartKey(i) : i \in 1..7} = FixedKeys \cup {chars("wts")}
             /\ Ascending(7)
             /\ PartValue(7) = to_string(call.arg[3])
             /\ PartKey(8) = chars("w_rid")
             /\ PartValue(8) = md5(BeforeDigest \o call.arg[1][1])

\* a signed query for aid 170001 at a time of ten digits
C38_Witness ==
    /\ Signing
    /\ call.arg[1] = Some(chars("mixin_key"))
    /\ call.arg[3] = 1700000000
    /\ Len(QueryParts) = 8
    /\ PartValue(1) = <<"1", "7", "0", "0", "0", "1">>
    /\ PartKey(8) = chars("w_rid")

\* an unsigned query
UnsignedQueryReached ==
    Signing /\ call.arg[1] = None /\ Len(QueryParts) = 6

\* ------------------------------------------- companion audio and headers
NoAudioStreams == call.arg.audio = None \/ call.arg.audio[1] = <<>>

\* the audio stream is one of the greatest bandwidth of the manifest
MaximalBandwidth(k) ==
    /\ k \in 1..Len(call.arg.audio[1])
    /\ \A l \in 1..Len(call.arg.audio[1]) : call.arg.audio[1][l] <= call.arg.audio[1][k]

\* C39: the Formats build_formats makes of one manifest all carry the same
\* companion audio URL: none if the manifest has no audio streams, else that
\* of an audio stream whose bandwidth is the greatest of the manifest; and
\* each carries a Referer and a User-Agent header.
C39_BestAudioAndHeaders ==
    Built =>
        \A i \in 1..Len(call.result) :
            /\ call.result[i].audio_url = call.result[1].audio_url
            /\ call.result[i].audio_url = None <=> NoAudioStreams
            /\ call.result[i].audio_url # None =>
                  MaximalBandwidth(call.result[i].audio_url[1])
            /\ {"Referer", "User-Agent"} \subseteq DOMAIN call.result[i].headers

\* two Formats with the audio of the second, the greater, of two streams
C39_Witness ==
    /\ Built
    /\ Len(call.result) = 2
    /\ call.arg.audio = Some(<<64000, 128000>>)
    /\ call.result[1].audio_url = Some(2)
    /\ call.result[2].audio_url = Some(2)
    /\ call.result[2].headers["Referer"] = "https://www.bilibili.com/"

====
